---- MODULE Spec2Model ----
(***************************************************************************)
(* The resilience layer of eisenhower-backend: the CircuitBreaker class of *)
(* src/utils/circuitBreaker.js and the calls in flight through it.         *)
(*                                                                         *)
(* One execute() call is an async function: it runs synchronously up to    *)
(* the await of Promise.race (admission), is resumed once when the race    *)
(* settles (the operation or the timer, whichever comes first), and, on    *)
(* the failure path with a fallback, once more when the fallback settles.  *)
(* Every such run-to-completion piece is one action.  Time is Date.now()   *)
(* in milliseconds and passes between the pieces only.                     *)
(***************************************************************************)
EXTENDS Integers, Sequences, FiniteSets, TLC

VARIABLES
    now,        \* Date.now(), in ms
    instants,   \* the times in ms at which the run looks at the clock (fixed by Init)
    budget,     \* per breaker (fixed-window limiter), the execute() calls
                \* (the requests) the run makes (fixed by Init)
    cb,         \* the CircuitBreaker instances: name -> fields of the object
    calls,      \* execute() calls in flight: slot -> position and pending events
    ret,        \* how the call that returned in this step ended
    openedAt,   \* history: per breaker, the time it last entered OPEN
    consec,     \* history: per breaker, guarded calls failed in a row
    okRun,      \* history: per breaker, guarded calls succeeded in a row
                \*          since the breaker last became HALF_OPEN
    overrides,  \* history: per breaker, reset(), forceOpen(), forceClose() calls
    forcedAt,   \* history: per breaker, the time of the forceOpen() that was the
                \*          operator's last call on it
    limiter,    \* pointsLimiter, the PointsBasedLimiter instance: fields of the object
    window,     \* history: per admission key, the end of its current window and
                \*          the cost of the requests admitted in it
    unswept,    \* history: pointsLimiter as it would be had cleanup() never run
    store,      \* the fixed-window limiters: name -> hits per key and the end
                \* of the current window
    request,    \* the HTTP request on its way through the server: route,
                \* position, what it has caused so far, and its answer
    cacheManager, \* the CacheManager instance: the implementation in use
                \* and its tiers, each a NodeCache object
    inserted,   \* history: per tier and key, the time and the ttl of the last
                \*          set() that stored the key
    tasks,      \* the tasks table of the data store: the number of mutations
                \* it has applied to the tasks of the client
    mutation,   \* the task mutation on its way through its handler: route,
                \* position and answer
    answered,   \* history: the mutations applied by the data store as the last
                \*          mutation was answered with success
    retry       \* the retryOperation() call under way: position, loop counter,
                \* timer, and the history of its attempts and waits

vars == <<now, instants, budget, cb, calls, ret, openedAt, consec, okRun,
          overrides, forcedAt, limiter, window, unswept, store, request,
          cacheManager, inserted, tasks, mutation, answered, retry>>

\* The rate limiters
limiters == <<limiter, window, unswept, store>>

\* The cache
cache == <<cacheManager, inserted>>

\* The database module: the tasks of the client, the mutation under way,
\* and its retry helper
dataStore == <<tasks, mutation, answered, retry>>

\* The requests in the server, the cache and the data store their handlers
\* use
server == <<request, cache, dataStore>>

\* What no action of a breaker changes
env == <<instants, budget, limiters, server>>

\* What only the operator's calls change
operator == <<overrides, forcedAt>>

\* The breakers and the calls in flight through them
guarded == <<cb, calls, openedAt, consec, okRun, operator>>

----------------------------------------------------------------------------
(* Bounds of the model *)

MaxCalls == 2       \* execute() calls in flight at once
MaxRequests == 4    \* execute() calls on a breaker
MaxNow == 3         \* Spec: the clock stops at this many ms
MaxOverrides == 1   \* reset(), forceOpen() and forceClose() calls by the operator
MaxSerial == 1      \* SpecInstances: execute() calls in flight at once
MaxStorm == 5       \* SpecInstances: execute() calls on the breaker under storm
MaxMinutes == 2     \* SpecInstances: the clock stops at this many minutes
MaxScenario == 7    \* SpecScenario: execute() calls on the breaker
MaxGuarded == 5     \* SpecGuarded: execute() calls on the breaker
MaxExcess == 2      \* SpecFixed: requests beyond the maximum of the limiter
MaxProbeNow == 2    \* SpecProbe: the clock stops at this many ms
MaxProbeCalls == 3  \* SpecProbe: execute() calls on the breaker
MaxOther == 1       \* SpecCache: keys beside those followed, in a run whose clock moves
MaxMutations == 2   \* SpecTasks: mutations the data store applies
MaxRetries == 3     \* SpecRetry: the largest maxRetries a call is given
MaxAttemptMs == 1000 \* SpecRetry: an attempt settles within this many ms
MaxRetryNow == 6000 \* SpecRetry: the clock stops at this many ms
Granularity == 500  \* SpecRetry: the clock is looked at every so many ms

----------------------------------------------------------------------------
(* Values *)

\* null, the initial lastFailureTime
Null == -1

CLOSED == "CLOSED"
OPEN == "OPEN"
HALF_OPEN == "HALF_OPEN"

CIRCUIT_STATES == {CLOSED, OPEN, HALF_OPEN}

\* What a promise can be rejected with.  An Error is modelled by its
\* message; NonErrorValue is a rejection value without a message property
\* (Promise.reject(), throw 'text', throw null).
CircuitOpenError == "Circuit breaker is OPEN"
TimeoutError == "Operation timeout"
RequestFailed == "Request failed with status code 500"
AxiosTimeout == "timeout of 15000ms exceeded"
NonErrorValue == "<rejection value without message>"
TypeError == "TypeError: Cannot read properties of undefined (reading 'includes')"
FallbackError == "Service temporarily unavailable"
NoError == "<none>"

\* The values an operation can fail with
OperationErrors == {RequestFailed, AxiosTimeout, NonErrorValue}

OperationResult == "operation result"
FallbackResult == "fallback result"

\* error.message is a string
HasMessage(error) == error # NonErrorValue

\* error.message.includes('timeout')
MessageIncludesTimeout(error) == error \in {TimeoutError, AxiosTimeout}

\* options.x || dflt: an absent (undefined) or zero option is falsy
OrDefault(v, dflt) == IF v = 0 THEN dflt ELSE v

\* Number(x) as the subtraction Date.now() - x coerces x
ToNumber(x) == IF x = Null THEN 0 ELSE x

\* Math.ceil(a / d) for d > 0 (-0 is 0: JSON writes both as 0)
Ceil(a, d) == -((-a) \div d)

----------------------------------------------------------------------------
(* class CircuitBreaker *)

\* constructor(options)
CircuitBreaker(options) ==
    [ failureThreshold |-> OrDefault(options.failureThreshold, 10),
      resetTimeout     |-> OrDefault(options.resetTimeout, 60000),
      timeout          |-> OrDefault(options.timeout, 30000),
      monitoringPeriod |-> OrDefault(options.monitoringPeriod, 60000),
      state            |-> CLOSED,
      failureCount     |-> 0,
      lastFailureTime  |-> Null,
      successCount     |-> 0,
      requestCount     |-> 0,
      stats |-> [ totalRequests  |-> 0,
                  totalFailures  |-> 0,
                  totalSuccesses |-> 0,
                  totalTimeouts  |-> 0,
                  circuitOpens   |-> 0,
                  circuitCloses  |-> 0 ] ]

\* The state check at the head of execute(): is the call thrown out?
RejectsWhenOpen(self, t) ==
    /\ self.state = OPEN
    /\ t - ToNumber(self.lastFailureTime) < self.resetTimeout

\* The head of execute() for a call that is let through: the counters, and
\* OPEN -> HALF_OPEN once the reset timeout has passed
Admit(self) ==
    LET counted == [self EXCEPT !.stats.totalRequests = @ + 1,
                                !.requestCount = @ + 1]
    IN  IF counted.state = OPEN
        THEN [counted EXCEPT !.state = HALF_OPEN, !.successCount = 0]
        ELSE counted

\* A head of execute() that would record the call thrown out as a failure
RefuseAsFailure(self) ==
    [self EXCEPT !.stats.totalRequests = @ + 1, !.requestCount = @ + 1,
                 !.stats.totalFailures = @ + 1, !.failureCount = @ + 1]

\* The head of execute() for a call that is thrown out
Refuse(self) ==
    [self EXCEPT !.stats.totalRequests = @ + 1, !.requestCount = @ + 1]

\* onSuccess()
onSuccess(self) ==
    LET s == [self EXCEPT !.stats.totalSuccesses = @ + 1,
                          !.failureCount = 0,
                          !.successCount = @ + 1]
    IN  IF s.state = HALF_OPEN /\ s.successCount >= 3
        THEN [s EXCEPT !.state = CLOSED, !.stats.circuitCloses = @ + 1]
        ELSE s

\* onFailure(error) at time t: the object afterwards, and whether the method
\* threw (reading .includes of an undefined message) before its threshold rule
onFailure(self, error, t) ==
    LET s1 == [self EXCEPT !.stats.totalFailures = @ + 1,
                           !.failureCount = @ + 1,
                           !.lastFailureTime = t]
        s2 == IF MessageIncludesTimeout(error)
              THEN [s1 EXCEPT !.stats.totalTimeouts = @ + 1]
              ELSE s1
        s3 == IF s2.failureCount >= s2.failureThreshold
              THEN [s2 EXCEPT !.state = OPEN, !.stats.circuitOpens = @ + 1]
              ELSE s2
    IN  IF HasMessage(error)
        THEN [self |-> s3, threw |-> FALSE]
        ELSE [self |-> s1, threw |-> TRUE]

----------------------------------------------------------------------------
(* Calls in flight *)

Slots == DOMAIN calls

IdleCall ==
    [ pc |-> "idle", b |-> "", fb |-> FALSE, timer |-> 0,
      opPending |-> FALSE, timerPending |-> FALSE,
      error |-> NoError, handled |-> 0 ]

\* retryAfter is the set of the retry-after estimates the caller is handed:
\* empty, or one number of seconds; key is the key a method of the cache was
\* called with, held whether the tier held it as the method was called
NoReturn ==
    [ b |-> "", kind |-> "none", value |-> "", invoked |-> FALSE,
      fb |-> FALSE, error |-> NoError, fallbackRan |-> FALSE,
      retryAfter |-> {}, held |-> FALSE, key |-> "" ]

\* A slot holds one call in flight.  Once the call has returned, the slot
\* keeps what is still to come of it (the operation's promise or the timer
\* of the race, whichever lost) until both are through or until a new call
\* takes the slot over.
Retire(call) ==
    IF call.pc = "done" /\ ~call.opPending /\ ~call.timerPending
    THEN IdleCall
    ELSE IF call.pc = "done"
         THEN [call EXCEPT !.fb = FALSE, !.error = NoError,
                           !.timer = IF call.timerPending THEN @ ELSE 0]
         ELSE [call EXCEPT !.timer = IF call.timerPending THEN @ ELSE 0]

FreeSlots == {c \in Slots : calls[c].pc \in {"idle", "done"}}

\* A race that would resume its call at every promise that settles
ResumesEveryTime(call) == TRUE

\* Promise.race settles once: only while the call still awaits it does a
\* settling promise resume the call
AwaitsRace(call) == call.pc = "racing"

\* history: the time the breaker entered OPEN
Entered(b, before, after) ==
    IF before.state # OPEN /\ after.state = OPEN
    THEN [openedAt EXCEPT ![b] = now] ELSE openedAt

----------------------------------------------------------------------------
(* Actions *)

\* execute(operation, fallback) up to its first await
execute(b, fb) ==
    /\ cb[b].stats.totalRequests < budget[b]
    /\ FreeSlots # {}
    /\ IF RejectsWhenOpen(cb[b], now)
       THEN /\ cb' = [cb EXCEPT ![b] = Refuse(cb[b])]
            /\ ret' = [ b |-> b, kind |-> "rejected", value |-> CircuitOpenError,
                        invoked |-> FALSE, fb |-> fb, error |-> NoError,
                        fallbackRan |-> FALSE, retryAfter |-> {}, held |-> FALSE, key |-> "" ]
            /\ UNCHANGED calls
       ELSE LET c == CHOOSE s \in FreeSlots : \A s2 \in FreeSlots : s <= s2
            IN  /\ cb' = [cb EXCEPT ![b] = Admit(cb[b])]
                /\ calls' = [calls EXCEPT ![c] =
                       [ pc |-> "racing", b |-> b, fb |-> FALSE,
                         timer |-> cb[b].timeout,
                         opPending |-> TRUE, timerPending |-> TRUE,
                         error |-> NoError, handled |-> 0 ]]
                /\ ret' = NoReturn
    /\ okRun' = IF cb[b].state = OPEN /\ cb'[b].state = HALF_OPEN
                THEN [okRun EXCEPT ![b] = 0] ELSE okRun
    /\ UNCHANGED <<now, env, openedAt, consec, operator>>

\* The try branch after the await: onSuccess(); return result
Succeed(c, call) ==
    LET b == call.b
    IN  /\ cb' = [cb EXCEPT ![b] = onSuccess(cb[b])]
        /\ calls' = [calls EXCEPT ![c] =
               Retire([call EXCEPT !.pc = "done", !.handled = @ + 1])]
        /\ ret' = [ b |-> b, kind |-> "resolved", value |-> OperationResult,
                    invoked |-> TRUE, fb |-> FALSE, error |-> NoError,
                    fallbackRan |-> FALSE, retryAfter |-> {}, held |-> FALSE, key |-> "" ]
        /\ consec' = [consec EXCEPT ![b] = 0]
        /\ okRun' = [okRun EXCEPT ![b] = @ + 1]
        /\ UNCHANGED openedAt

\* The catch branch after the await: onFailure(error), then the fallback
Catch(c, call, error, fb) ==
    LET b == call.b
        f == onFailure(cb[b], error, now)
        thrown == IF f.threw THEN TypeError ELSE error
    IN  /\ cb' = [cb EXCEPT ![b] = f.self]
        /\ consec' = [consec EXCEPT ![b] = @ + 1]
        /\ okRun' = [okRun EXCEPT ![b] = 0]
        /\ openedAt' = Entered(b, cb[b], f.self)
        /\ IF ~f.threw /\ fb
           THEN /\ calls' = [calls EXCEPT ![c] =
                       [call EXCEPT !.pc = "fallback", !.fb = TRUE, !.error = error,
                                    !.handled = @ + 1]]
                /\ ret' = NoReturn
           ELSE /\ calls' = [calls EXCEPT ![c] =
                       Retire([call EXCEPT !.pc = "done", !.error = error,
                                           !.handled = @ + 1])]
                /\ ret' = [ b |-> b, kind |-> "rejected", value |-> thrown,
                            invoked |-> TRUE, fb |-> fb, error |-> error,
                            fallbackRan |-> FALSE, retryAfter |-> {}, held |-> FALSE, key |-> "" ]

\* A promise of a race that has been settled already settles: no effect
Discard(c, call) ==
    /\ calls' = [calls EXCEPT ![c] = Retire(call)]
    /\ ret' = [NoReturn EXCEPT !.b = call.b, !.kind = "discarded"]
    /\ UNCHANGED <<cb, openedAt, consec, okRun>>

\* The promise of operation() resolves
operationResolves(c) ==
    /\ calls[c].opPending
    /\ LET call == [calls[c] EXCEPT !.opPending = FALSE]
       IN  IF AwaitsRace(calls[c]) THEN Succeed(c, call) ELSE Discard(c, call)
    /\ UNCHANGED <<now, env, operator>>

\* The promise of operation() rejects with error
operationRejects(c, error, fb) ==
    /\ calls[c].opPending
    /\ LET call == [calls[c] EXCEPT !.opPending = FALSE]
       IN  IF AwaitsRace(calls[c]) THEN Catch(c, call, error, fb)
           ELSE Discard(c, call)
    /\ UNCHANGED <<now, env, operator>>

\* The timer of the race fires: reject(new Error('Operation timeout'))
timeoutFires(c, fb) ==
    /\ calls[c].timerPending
    /\ calls[c].timer = 0
    /\ LET call == [calls[c] EXCEPT !.timerPending = FALSE]
       IN  IF AwaitsRace(calls[c]) THEN Catch(c, call, TimeoutError, fb)
           ELSE Discard(c, call)
    /\ UNCHANGED <<now, env, operator>>

\* The awaited fallback() settles: return its result, or throw the error
\* caught from the race
fallbackSettles(c, ok) ==
    /\ calls[c].pc = "fallback"
    /\ calls' = [calls EXCEPT ![c] = Retire([calls[c] EXCEPT !.pc = "done"])]
    /\ ret' = [ b |-> calls[c].b,
                kind |-> IF ok THEN "resolved" ELSE "rejected",
                value |-> IF ok THEN FallbackResult ELSE calls[c].error,
                invoked |-> TRUE, fb |-> TRUE, error |-> calls[c].error,
                fallbackRan |-> TRUE, retryAfter |-> {}, held |-> FALSE, key |-> "" ]
    /\ UNCHANGED <<now, env, cb, openedAt, consec, okRun, operator>>

RECURSIVE Sum(_, _)
Sum(f, S) == IF S = {} THEN 0
             ELSE LET x == CHOOSE y \in S : TRUE IN f[x] + Sum(f, S \ {x})

\* The operator's calls so far
Overridden == Sum(overrides, DOMAIN overrides)

\* A synchronous method of breaker b has returned
Returned(b, method) == [NoReturn EXCEPT !.b = b, !.kind = method]

\* An operator's call that would leave failureCount as it is
forceCloseKeepsCount(b) ==
    /\ Overridden < MaxOverrides
    /\ overrides' = [overrides EXCEPT ![b] = @ + 1]
    /\ cb' = [cb EXCEPT ![b] = [@ EXCEPT !.state = CLOSED, !.successCount = 0]]
    /\ consec' = [consec EXCEPT ![b] = 0]
    /\ okRun' = [okRun EXCEPT ![b] = 0]
    /\ forcedAt' = [forcedAt EXCEPT ![b] = Null]
    /\ ret' = Returned(b, "forceClose")
    /\ UNCHANGED <<now, env, calls, openedAt>>

\* A reset() that would start the statistics anew as well
resetStatistics(b) ==
    /\ Overridden < MaxOverrides
    /\ overrides' = [overrides EXCEPT ![b] = @ + 1]
    /\ cb' = [cb EXCEPT ![b] = [CircuitBreaker(@) EXCEPT !.monitoringPeriod =
                                                            cb[b].monitoringPeriod]]
    /\ consec' = [consec EXCEPT ![b] = 0]
    /\ okRun' = [okRun EXCEPT ![b] = 0]
    /\ forcedAt' = [forcedAt EXCEPT ![b] = Null]
    /\ ret' = Returned(b, "reset")
    /\ UNCHANGED <<now, env, calls, openedAt>>

\* reset()
reset(b) ==
    /\ Overridden < MaxOverrides
    /\ overrides' = [overrides EXCEPT ![b] = @ + 1]
    /\ cb' = [cb EXCEPT ![b] = [@ EXCEPT !.state = CLOSED, !.failureCount = 0,
                                        !.successCount = 0,
                                        !.lastFailureTime = Null]]
    /\ consec' = [consec EXCEPT ![b] = 0]
    /\ okRun' = [okRun EXCEPT ![b] = 0]
    /\ forcedAt' = [forcedAt EXCEPT ![b] = Null]
    /\ ret' = Returned(b, "reset")
    /\ UNCHANGED <<now, env, calls, openedAt>>

\* An override that would reach every breaker of the module
forceOpenEvery(b) ==
    /\ Overridden < MaxOverrides
    /\ overrides' = [overrides EXCEPT ![b] = @ + 1]
    /\ cb' = [x \in DOMAIN cb |-> [cb[x] EXCEPT !.state = OPEN,
                                                !.lastFailureTime = now]]
    /\ openedAt' = [x \in DOMAIN cb |-> now]
    /\ consec' = [consec EXCEPT ![b] = 0]
    /\ okRun' = [okRun EXCEPT ![b] = 0]
    /\ forcedAt' = [forcedAt EXCEPT ![b] = now]
    /\ ret' = Returned(b, "forceOpen")
    /\ UNCHANGED <<now, env, calls>>

\* forceOpen()
forceOpen(b) ==
    /\ Overridden < MaxOverrides
    /\ overrides' = [overrides EXCEPT ![b] = @ + 1]
    /\ cb' = [cb EXCEPT ![b] = [@ EXCEPT !.state = OPEN,
                                        !.lastFailureTime = now]]
    /\ openedAt' = [openedAt EXCEPT ![b] = now]
    /\ consec' = [consec EXCEPT ![b] = 0]
    /\ okRun' = [okRun EXCEPT ![b] = 0]
    /\ forcedAt' = [forcedAt EXCEPT ![b] = now]
    /\ ret' = Returned(b, "forceOpen")
    /\ UNCHANGED <<now, env, calls>>

\* forceClose()
forceClose(b) ==
    /\ Overridden < MaxOverrides
    /\ overrides' = [overrides EXCEPT ![b] = @ + 1]
    /\ cb' = [cb EXCEPT ![b] = [@ EXCEPT !.state = CLOSED, !.failureCount = 0,
                                        !.successCount = 0]]
    /\ consec' = [consec EXCEPT ![b] = 0]
    /\ okRun' = [okRun EXCEPT ![b] = 0]
    /\ forcedAt' = [forcedAt EXCEPT ![b] = Null]
    /\ ret' = Returned(b, "forceClose")
    /\ UNCHANGED <<now, env, calls, openedAt>>

\* getState()
getState(self) ==
    [ state |-> self.state, failureCount |-> self.failureCount,
      successCount |-> self.successCount,
      lastFailureTime |-> self.lastFailureTime, stats |-> self.stats ]

\* circuitBreakerMiddleware(circuitBreaker) handles a request: 503 with a
\* retryAfter while the state is OPEN, next() otherwise
circuitBreakerMiddleware(b) ==
    LET state == getState(cb[b])
    IN  /\ ret' = IF state.state = OPEN
                  THEN [Returned(b, "503") EXCEPT
                          !.value = FallbackError,
                          !.retryAfter =
                             {Ceil(cb[b].resetTimeout
                                     - (now - ToNumber(state.lastFailureTime)),
                                   1000)}]
                  ELSE Returned(b, "next")
        /\ UNCHANGED <<now, env, cb, calls, openedAt, consec, okRun, operator>>

\* setTimeout(..., this.timeout): the time left until a pending timer is due
Elapse(call, ms) ==
    IF call.timerPending
    THEN [call EXCEPT !.timer = IF @ > ms THEN @ - ms ELSE 0]
    ELSE call

\* Time passes
Tick(t) ==
    /\ t > now
    /\ now' = t
    /\ calls' = [c \in Slots |-> Elapse(calls[c], t - now)]
    /\ ret' = NoReturn
    /\ UNCHANGED <<env, cb, openedAt, consec, okRun, operator>>

Next ==
    \/ \E b \in DOMAIN cb, fb \in BOOLEAN : execute(b, fb)
    \/ \E c \in Slots : operationResolves(c)
    \/ \E c \in Slots, error \in OperationErrors, fb \in BOOLEAN :
           operationRejects(c, error, fb)
    \/ \E c \in Slots, fb \in BOOLEAN : timeoutFires(c, fb)
    \/ \E c \in Slots, ok \in BOOLEAN : fallbackSettles(c, ok)
    \/ \E b \in DOMAIN cb : reset(b)
    \/ \E b \in DOMAIN cb : forceOpen(b)
    \/ \E b \in DOMAIN cb : forceClose(b)
    \/ \E t \in instants : Tick(t)

----------------------------------------------------------------------------
(* class PointsBasedLimiter *)

\* A Map: a function on the keys it has
NoEntries == [k \in {} |-> {}]

\* map.set(key, value)
MapSet(map, key, value) ==
    [k \in DOMAIN map \cup {key} |-> IF k = key THEN value ELSE map[k]]

\* map.delete(key) for every key of a set
MapDelete(map, keys) == [k \in DOMAIN map \ keys |-> map[k]]

\* constructor()
PointsBasedLimiter ==
    [ points |-> NoEntries, windowMs |-> 15 * 60 * 1000, maxPoints |-> 100 ]

\* The costs table of getCost
costs ==
    [ GET |-> 1, POST |-> 2, PUT |-> 2, DELETE |-> 3, AI |-> 10, AUTH |-> 5,
      UPLOAD |-> 15 ]

\* A limiter that would charge every kind of operation the same
getCostFlat(operation) == 1

\* getCost(operation): costs[operation] || 1
getCost(operation) ==
    IF operation \in DOMAIN costs /\ costs[operation] # 0
    THEN costs[operation] ELSE 1

\* A limiter that would charge nothing for what it lets through
canExecuteFree(self, key, operation, t) ==
    [ self |-> IF key \in DOMAIN self.points THEN self
               ELSE [self EXCEPT !.points =
                        MapSet(@, key, [points |-> 0,
                                        resetTime |-> t + self.windowMs])],
      result |-> TRUE ]

\* A limiter that would start the new window as the old one ends
canExecuteEarly(self, key, operation, t) ==
    LET cost == getCost(operation)
        had == IF key \in DOMAIN self.points THEN self.points
               ELSE MapSet(self.points, key,
                           [points |-> 0, resetTime |-> t + self.windowMs])
        userPoints == IF t >= had[key].resetTime
                      THEN [points |-> 0, resetTime |-> t + self.windowMs]
                      ELSE had[key]
    IN  IF userPoints.points + cost > self.maxPoints
        THEN [ self |-> [self EXCEPT !.points = MapSet(had, key, userPoints)],
               result |-> FALSE ]
        ELSE [ self |-> [self EXCEPT !.points =
                            MapSet(had, key,
                                   [userPoints EXCEPT !.points = @ + cost])],
               result |-> TRUE ]

\* A limiter that would start a new window at every request
canExecuteForgetful(self, key, operation, t) ==
    [ self |-> [self EXCEPT !.points =
                   MapSet(@, key, [points |-> getCost(operation),
                                   resetTime |-> t + self.windowMs])],
      result |-> TRUE ]

\* canExecute(key, operation) at time t: the object afterwards and the
\* value returned
canExecute(self, key, operation, t) ==
    LET cost == getCost(operation)
        had == IF key \in DOMAIN self.points THEN self.points
               ELSE MapSet(self.points, key,
                           [points |-> 0, resetTime |-> t + self.windowMs])
        userPoints == IF t > had[key].resetTime
                      THEN [points |-> 0, resetTime |-> t + self.windowMs]
                      ELSE had[key]
    IN  IF userPoints.points + cost > self.maxPoints
        THEN [ self |-> [self EXCEPT !.points = MapSet(had, key, userPoints)],
               result |-> FALSE ]
        ELSE [ self |-> [self EXCEPT !.points =
                            MapSet(had, key,
                                   [userPoints EXCEPT !.points = @ + cost])],
               result |-> TRUE ]

\* history: the window of key at time t, a request of the given cost let
\* through or not.  A window lasts windowMs from the first request after the
\* window before it has ended; refused tells whether a request was turned
\* away in it, exhausted whether one was in the window before it.
Charge(key, cost, admitted, t) ==
    LET known == key \in DOMAIN window
        fresh == ~known \/ t > window[key].end
        end == IF fresh THEN t + limiter.windowMs ELSE window[key].end
        spent == IF fresh THEN 0 ELSE window[key].spent
    IN  MapSet(window, key,
               [ end |-> end,
                 spent |-> spent + IF admitted THEN cost ELSE 0,
                 refused |-> (~fresh /\ window[key].refused) \/ ~admitted,
                 exhausted |-> IF fresh THEN known /\ window[key].refused
                               ELSE window[key].exhausted ])

\* The requests that reach the limiter: a signed-in user with any kind of
\* operation, and uploads from an address without a user
Operations == DOMAIN costs \cup {"PATCH"}

Requests ==
    [userId : {"user-1"}, ip : {"10.0.0.1"}, operation : Operations]
    \cup [userId : {""}, ip : {"10.0.0.1"}, operation : {"UPLOAD"}]

\* req.user?.userId || req.ip
KeyOf(req) == IF req.userId # "" THEN req.userId ELSE req.ip

\* The handler that middleware(operation) returns, on a request
middleware(req) ==
    LET key == KeyOf(req)
        can == canExecute(limiter, key, req.operation, now)
    IN  /\ limiter' = can.self
        /\ window' = Charge(key, getCost(req.operation), can.result, now)
        /\ unswept' = canExecute(unswept, key, req.operation, now).self
        /\ ret' = IF can.result
                  THEN [Returned(key, "next") EXCEPT !.value = req.operation]
                  ELSE [Returned(key, "429") EXCEPT
                          !.value = req.operation,
                          !.error = "Rate limit exceeded"]
        /\ UNCHANGED <<now, instants, budget, guarded, store, server>>

\* A cleanup() that would take a window for over at its last instant
cleanupEarly ==
    /\ limiter' = [limiter EXCEPT !.points =
                      MapDelete(@, {k \in DOMAIN @ : now >= @[k].resetTime})]
    /\ ret' = Returned("", "cleanup")
    /\ UNCHANGED <<now, instants, budget, guarded, window, unswept, store, server>>

\* cleanup(), run by the timer of the constructor
cleanup ==
    /\ limiter' = [limiter EXCEPT !.points =
                      MapDelete(@, {k \in DOMAIN @ : now > @[k].resetTime})]
    /\ ret' = Returned("", "cleanup")
    /\ UNCHANGED <<now, instants, budget, guarded, window, unswept, store, server>>

----------------------------------------------------------------------------
(* The fixed-window limiters *)

\* A destructuring default: it replaces an absent (undefined) option only
Default(v, dflt) == IF v = Null THEN dflt ELSE v

\* What the repository hands to rateLimit(): the window, the maximum, and
\* the retryAfter its handler writes into the 429 body
generalLimiter ==
    [ windowMs |-> 15 * 60 * 1000, max |-> 100, retryAfter |-> Ceil(15 * 60, 1) ]

authLimiter ==
    [ windowMs |-> 15 * 60 * 1000, max |-> 10, retryAfter |-> Ceil(15 * 60, 1) ]

taskLimiter ==
    [ windowMs |-> 1 * 60 * 1000, max |-> 30, retryAfter |-> Ceil(60, 1) ]

aiLimiter ==
    [ windowMs |-> 5 * 60 * 1000, max |-> 5, retryAfter |-> Ceil(5 * 60, 1) ]

createCustomLimiter(options) ==
    LET windowMs == Default(options.windowMs, 15 * 60 * 1000)
        max == Default(options.max, 100)
    IN  [ windowMs |-> windowMs, max |-> max,
          retryAfter |-> Ceil(windowMs, 1000) ]

\* The limiters of the module, and one made by createCustomLimiter
FixedWindow ==
    [ generalLimiter |-> generalLimiter,
      authLimiter    |-> authLimiter,
      taskLimiter    |-> taskLimiter,
      aiLimiter      |-> aiLimiter,
      customLimiter  |-> createCustomLimiter([windowMs |-> 1500, max |-> 2]) ]

\* The retryAfter of the 429 body
RetryAfterBody(name) == FixedWindow[name].retryAfter

\* The requests that reach a fixed-window limiter
Callers ==
    { [userId |-> "user-1", ip |-> "10.0.0.1", userAgent |-> "curl"],
      [userId |-> "", ip |-> "10.0.0.1", userAgent |-> "curl"] }

\* keyGenerator(req) of each limiter
keyGenerator(name, req) ==
    LET user == IF req.userId # "" THEN req.userId ELSE req.ip
    IN  CASE name = "generalLimiter" -> req.ip \o req.userAgent
          [] name = "authLimiter" -> req.ip
          [] name = "taskLimiter" -> user
          [] name = "aiLimiter" -> "ai_" \o user
          [] OTHER -> req.ip

\* The requests a limiter has counted in its window
Counted(name) ==
    Sum(store[name].hits, DOMAIN store[name].hits)

\* The hits of key in the window of the limiter, this request counted
Increment(name, key) ==
    (IF key \in DOMAIN store[name].hits THEN store[name].hits[key] ELSE 0) + 1

\* The middleware rateLimit(options) returns, on a request: the hit is
\* counted; beyond max the handler answers 429
rateLimit(name, req) ==
    LET key == keyGenerator(name, req)
        totalHits == Increment(name, key)
    IN  /\ Counted(name) < budget[name]
        /\ store' = [store EXCEPT ![name].hits = MapSet(@, key, totalHits)]
        /\ ret' = IF totalHits > FixedWindow[name].max
                  THEN [Returned(name, "429") EXCEPT
                          !.value = key,
                          !.retryAfter = {RetryAfterBody(name)}]
                  ELSE [Returned(name, "next") EXCEPT !.value = key]
        /\ UNCHANGED <<now, instants, budget, guarded, limiter, window, unswept,
                    server>>

\* The timer of the limiter's store: a new window for every key
resetAll(name) ==
    /\ now >= store[name].resetTime
    /\ store' = [store EXCEPT ![name] =
                    [hits |-> NoEntries,
                     resetTime |-> now + FixedWindow[name].windowMs]]
    /\ ret' = Returned(name, "resetAll")
    /\ UNCHANGED <<now, instants, budget, guarded, limiter, window, unswept,
                    server>>

----------------------------------------------------------------------------
(* class NodeCache (node-cache ^5.1.2), as far as CacheManager uses it *)

\* What a read returns for a key that is not held
undefined == "undefined"

\* The error set() throws on a full cache
ECACHEFULL == "ECACHEFULL: Cache max keys amount exceeded"

\* The keys the model follows one by one.  Other stands for the keys beside
\* them: a key not yet held when it is set, the last such key set when it is
\* read or deleted.  The entries under those keys are counted, not listed.
Keys == {"k"}
Other == "other"

\* The values the model stores
Values == {"v"}

\* The ttl arguments of the model: none, unlimited, one second
TTLs == {Null, 0, 1}

\* new NodeCache(options)
NodeCache(options) == [options |-> options, data |-> NoEntries, fill |-> 0]

\* stats.keys
KeyCount(self) == Cardinality(DOMAIN self.data) + self.fill

\* Object.keys(this.data) has key / this.data[key]
Held(self, key) ==
    IF key = Other THEN self.fill > 0 ELSE key \in DOMAIN self.data

Entry(self, key) ==
    IF key = Other
    THEN [t |-> self.options.stdTTL * 1000, v |-> "filler"]
    ELSE self.data[key]

\* _wrap(value, ttl): the entry, t the time it expires at (0: never)
Wrap(self, value, ttl, t) ==
    [ t |-> IF ttl = 0 THEN 0
            ELSE IF ttl # Null THEN t + ttl * 1000
            ELSE IF self.options.stdTTL = 0 THEN 0
            ELSE t + self.options.stdTTL * 1000,
      v |-> value ]

\* del(key): the number of entries deleted
NodeCacheDel(self, key) ==
    IF Held(self, key)
    THEN [ self |-> IF key = Other THEN [self EXCEPT !.fill = @ - 1]
                    ELSE [self EXCEPT !.data = MapDelete(@, {key})],
           value |-> 1 ]
    ELSE [self |-> self, value |-> 0]

\* A check that would take every entry for live
checkNever(self, key, t) == [self |-> self, value |-> TRUE]

\* _check(key, data): FALSE, and the entry deleted, once its time is over
check(self, key, t) ==
    IF Entry(self, key).t # 0 /\ Entry(self, key).t < t
    THEN [self |-> NodeCacheDel(self, key).self, value |-> FALSE]
    ELSE [self |-> self, value |-> TRUE]

\* get(key)
NodeCacheGet(self, key, t) ==
    IF Held(self, key)
    THEN LET c == check(self, key, t)
         IN  [ self |-> c.self,
               value |-> IF c.value THEN Entry(self, key).v ELSE undefined ]
    ELSE [self |-> self, value |-> undefined]

\* has(key)
NodeCacheHas(self, key, t) ==
    IF Held(self, key)
    THEN check(self, key, t)
    ELSE [self |-> self, value |-> FALSE]

\* A set() that would not look at maxKeys
NodeCacheSetUnbounded(self, key, value, ttl, t) ==
    [ self |-> IF key = Other THEN [self EXCEPT !.fill = @ + 1]
               ELSE [self EXCEPT !.data = MapSet(@, key, Wrap(self, value, ttl, t))],
      value |-> TRUE, error |-> NoError ]

\* set(key, value, ttl): throws on a full cache, the key held or not
NodeCacheSet(self, key, value, ttl, t) ==
    IF self.options.maxKeys > -1 /\ KeyCount(self) >= self.options.maxKeys
    THEN [self |-> self, value |-> FALSE, error |-> ECACHEFULL]
    ELSE [ self |-> IF key = Other THEN [self EXCEPT !.fill = @ + 1]
                    ELSE [self EXCEPT !.data =
                             MapSet(@, key, Wrap(self, value, ttl, t))],
           value |-> TRUE, error |-> NoError ]

\* flushAll()
flushAll(self) == [self EXCEPT !.data = NoEntries, !.fill = 0]

\* _checkData(): _check on every key
NodeCacheCheckData(self, t) ==
    [self EXCEPT
       !.data = [k \in {x \in DOMAIN self.data : check(self, x, t).value}
                   |-> self.data[k]],
       !.fill = IF self.fill > 0 /\ ~check(self, Other, t).value THEN 0 ELSE @]

----------------------------------------------------------------------------
(* class CacheManager, in its two implementations *)

\* The tiers
mainCache == NodeCache([stdTTL |-> 300, checkperiod |-> 60, maxKeys |-> 1000])
sessionCache == NodeCache([stdTTL |-> 3600, checkperiod |-> 300, maxKeys |-> 500])
aiCache == NodeCache([stdTTL |-> 600, checkperiod |-> 60, maxKeys |-> 200])
rateLimitCache == NodeCache([stdTTL |-> 900, checkperiod |-> 60, maxKeys |-> 5000])

\* The tiers of the second implementation
mainCache2 == NodeCache([stdTTL |-> 300, checkperiod |-> 120, maxKeys |-> 1000])
sessionCache2 == NodeCache([stdTTL |-> 3600, checkperiod |-> 600, maxKeys |-> 500])
aiCache2 == NodeCache([stdTTL |-> 600, checkperiod |-> 120, maxKeys |-> 200])
rateLimitCache2 == NodeCache([stdTTL |-> 900, checkperiod |-> 300, maxKeys |-> 10000])

\* constructor()
CacheManager(version) ==
    [ version |-> version,
      caches |-> IF version = 1
                 THEN [ main |-> mainCache, session |-> sessionCache,
                        ai |-> aiCache, rateLimit |-> rateLimitCache ]
                 ELSE [ main |-> mainCache2, session |-> sessionCache2,
                        ai |-> aiCache2, rateLimit |-> rateLimitCache2 ] ]

\* A boolean and a count as their caller sees them
ShowBoolean(x) == IF x THEN "true" ELSE "false"
ShowCount(n) == IF n = 0 THEN "0" ELSE "1"

\* if (value): what JavaScript takes for true
Truthy(value) == value \notin {undefined, "null", "false", "0", ""}

\* What a method hands back: the manager afterwards, the value returned,
\* the error thrown at the caller
Back(self, value, error) == [self |-> self, value |-> value, error |-> error]

With(self, cacheType, tier) == [self EXCEPT !.caches[cacheType] = tier]

\* get(key, cacheType) / get(cacheType, key)
CacheGet(self, cacheType, key, t) ==
    IF cacheType \notin DOMAIN self.caches
    THEN Back(self, IF self.version = 1 THEN undefined ELSE "null", NoError)
    ELSE LET r == NodeCacheGet(self.caches[cacheType], key, t)
         IN  Back(With(self, cacheType, r.self), r.value, NoError)

\* set(key, value, ttl, cacheType) / set(cacheType, key, value, ttl)
CacheSet(self, cacheType, key, value, ttl, t) ==
    IF cacheType \notin DOMAIN self.caches
    THEN Back(self, "false", NoError)
    ELSE LET given == IF self.version = 2 /\ ttl = 0 THEN Null ELSE ttl
             r == NodeCacheSet(self.caches[cacheType], key, value, given, t)
         IN  IF r.error = NoError
             THEN Back(With(self, cacheType, r.self), ShowBoolean(r.value), NoError)
             ELSE IF self.version = 1
             THEN Back(self, "false", NoError)
             ELSE Back(self, undefined, r.error)

\* delete(key, cacheType) / del(cacheType, key)
CacheDelete(self, cacheType, key) ==
    IF cacheType \notin DOMAIN self.caches
    THEN Back(self, "false", NoError)
    ELSE LET r == NodeCacheDel(self.caches[cacheType], key)
         IN  Back(With(self, cacheType, r.self), ShowCount(r.value), NoError)

\* has(key, cacheType), of the first implementation
CacheHas(self, cacheType, key, t) ==
    IF cacheType \notin DOMAIN self.caches
    THEN Back(self, "false", NoError)
    ELSE LET r == NodeCacheHas(self.caches[cacheType], key, t)
         IN  Back(With(self, cacheType, r.self), ShowBoolean(r.value), NoError)

\* clear(cacheType) / flush(cacheType)
CacheClear(self, cacheType) ==
    IF cacheType \notin DOMAIN self.caches
    THEN Back(self, "false", NoError)
    ELSE Back(With(self, cacheType, flushAll(self.caches[cacheType])),
              "true", NoError)

\* prune() calls cache.prune(), which NodeCache does not have; cleanup() of
\* the second implementation reads every key of every tier
CachePrune(self, t) ==
    IF self.version = 1
    THEN Back(self, undefined, TypeError)
    ELSE Back([self EXCEPT !.caches =
                  [c \in DOMAIN self.caches |->
                      NodeCacheCheckData(self.caches[c], t)]],
              undefined, NoError)

\* The tiers a run works on, and an identifier that is none
UnknownTier == "unknown"
CacheTypes == (DOMAIN budget \cap DOMAIN cacheManager.caches) \cup {UnknownTier}

\* history: what set() stored, and when; kept for as long as the tier
\* holds the key
Stored(cacheType, key, ttl) ==
    IF key = Other THEN inserted
    ELSE MapSet(inserted, <<cacheType, key>>, [at |-> now, ttl |-> ttl])

Remembered(history, self) ==
    [e \in {x \in DOMAIN history : Held(self.caches[x[1]], x[2])} |-> history[e]]

\* The method of the manager has returned
CacheReturned(method, cacheType, key, r) ==
    [NoReturn EXCEPT !.kind = method, !.b = cacheType, !.value = r.value,
                     !.error = r.error, !.key = key,
                     !.held = /\ cacheType \in DOMAIN cacheManager.caches
                              /\ Held(cacheManager.caches[cacheType], key)]

\* cacheManager.get
get(cacheType, key) ==
    LET r == CacheGet(cacheManager, cacheType, key, now)
    IN  /\ cacheManager' = r.self
        /\ ret' = CacheReturned("get", cacheType, key, r)
        /\ inserted' = Remembered(inserted, r.self)
        /\ UNCHANGED <<now, instants, budget, guarded, limiters, request, dataStore>>

\* cacheManager.set; the keys beside those followed are set as the run
\* starts, with the ttl of the tier
set(cacheType, key, value, ttl) ==
    LET r == CacheSet(cacheManager, cacheType, key, value, ttl, now)
    IN  /\ key = Other =>
              /\ now = 0 /\ ttl = Null
              /\ cacheType \in DOMAIN budget
                    => cacheManager.caches[cacheType].fill < budget[cacheType]
        /\ cacheManager' = r.self
        /\ inserted' = IF r.value = "true" THEN Stored(cacheType, key, ttl)
                       ELSE inserted
        /\ ret' = CacheReturned("set", cacheType, key, r)
        /\ UNCHANGED <<now, instants, budget, guarded, limiters, request, dataStore>>

\* cacheManager.delete / cacheManager.del
delete(cacheType, key) ==
    LET r == CacheDelete(cacheManager, cacheType, key)
    IN  /\ cacheManager' = r.self
        /\ ret' = CacheReturned("delete", cacheType, key, r)
        /\ inserted' = Remembered(inserted, r.self)
        /\ UNCHANGED <<now, instants, budget, guarded, limiters, request, dataStore>>

\* cacheManager.has
has(cacheType, key) ==
    LET r == CacheHas(cacheManager, cacheType, key, now)
    IN  /\ cacheManager.version = 1
        /\ cacheManager' = r.self
        /\ ret' = CacheReturned("has", cacheType, key, r)
        /\ inserted' = Remembered(inserted, r.self)
        /\ UNCHANGED <<now, instants, budget, guarded, limiters, request, dataStore>>

\* cacheManager.clear / cacheManager.flush
clear(cacheType) ==
    LET r == CacheClear(cacheManager, cacheType)
    IN  /\ cacheManager' = r.self
        /\ ret' = CacheReturned("clear", cacheType, "", r)
        /\ inserted' = Remembered(inserted, r.self)
        /\ UNCHANGED <<now, instants, budget, guarded, limiters, request, dataStore>>

\* cacheManager.prune / cacheManager.cleanup, from the 30-minute interval
prune ==
    LET r == CachePrune(cacheManager, now)
    IN  /\ cacheManager' = r.self
        /\ ret' = CacheReturned("prune", "", "", r)
        /\ inserted' = Remembered(inserted, r.self)
        /\ UNCHANGED <<now, instants, budget, guarded, limiters, request, dataStore>>

\* The checkperiod timer of a tier: _checkData()
checkData(cacheType) ==
    /\ cacheType \in DOMAIN cacheManager.caches
    /\ cacheManager' = With(cacheManager, cacheType,
                            NodeCacheCheckData(cacheManager.caches[cacheType], now))
    /\ inserted' = Remembered(inserted, cacheManager')
    /\ ret' = [NoReturn EXCEPT !.kind = "checkData", !.b = cacheType]
    /\ UNCHANGED <<now, instants, budget, guarded, limiters, request, dataStore>>

\* getCache(key, cacheType = 'main'), setCache(key, value, ttl = null,
\* cacheType = 'main')
getCache(key) == CacheGet(cacheManager, "main", key, now)
setCache(key, value, ttl) == CacheSet(cacheManager, "main", key, value, ttl, now)

\* deleteCache(key, cacheType = 'main')
deleteCache(key) == CacheDelete(cacheManager, "main", key)

----------------------------------------------------------------------------
(* The server: requests to /api/tasks and /api/ai *)

\* What require('../utils/circuitBreaker') gives the AI routes
exports ==
    { "CircuitBreaker", "geminiCircuitBreaker", "supabaseCircuitBreaker",
      "genericCircuitBreaker", "httpRequest", "circuitBreakerMiddleware",
      "healthCheck", "CIRCUIT_STATES" }

\* The routes of the model, and the limiter each router uses
TaskRoutes == {"GET /api/tasks", "GET /api/tasks/stats"}

AiRoutes ==
    {"POST /api/ai/analyze", "POST /api/ai/prioritize", "POST /api/ai/chat"}

Routes == TaskRoutes \cup AiRoutes

RouteLimiter(route) ==
    IF route \in TaskRoutes THEN "taskLimiter" ELSE "aiLimiter"

\* A GET route mounted behind cacheMiddleware() with no authentication in
\* front of it, and what its handler passes to res.json with status 200: an
\* object, or the number 0
CachedRoute == "GET /api/report"
Payloads == {"report", "0"}

\* The client of the model
Client == [userId |-> "user-1", ip |-> "10.0.0.1", userAgent |-> "curl"]

\* The cache key of a request; the client sends one body to each AI route
\* (a task list, a task title, a message), whose head ends the key
CacheKey(route) ==
    CASE route = "GET /api/tasks" -> "tasks_" \o Client.userId
      [] route = "GET /api/tasks/stats" -> "task_stats_" \o Client.userId
      [] route = CachedRoute -> "response_/api/report_anonymous"
      [] route = "POST /api/ai/analyze" ->
            "ai_analysis_" \o Client.userId \o "_[{title:report}]"
      [] route = "POST /api/ai/prioritize" ->
            "ai_prioritize_" \o Client.userId \o "_report"
      [] OTHER -> "ai_chat_" \o Client.userId \o "_hello"

\* read is what the query of the handler found in the data store
NoRequest ==
    [ route |-> "", token |-> FALSE, valid |-> FALSE, pc |-> "idle",
      did |-> << >>, status |-> 0, body |-> "", read |-> Null ]

\* The mutation routes of the task router, and no mutation
MutationRoutes ==
    { "POST /api/tasks", "PUT /api/tasks/:id", "DELETE /api/tasks/:id",
      "PATCH /api/tasks/:id/move" }

NoMutation == [route |-> "", pc |-> "idle", status |-> 0]

\* The rows of the client in the tasks table once it has applied so many
\* mutations, organised by quadrant
tasksByQuadrant(version) ==
    IF version = 0 THEN "tasksByQuadrant"
    ELSE IF version = 1 THEN "tasksByQuadrant after 1 mutation"
    ELSE "tasksByQuadrant after 2 mutations"

\* res.status(status).json(body): the request is answered
Answer(req, did, status, body) ==
    [req EXCEPT !.pc = "done", !.did = did, !.status = status, !.body = body]

\* The handler of an AI route up to its first await.  circuitBreaker is the
\* module object: calling its execute throws a TypeError before anything is
\* awaited, and the catch of the handler answers.
aiHandler(req, did) ==
    LET read == Append(did, "getCache")
    IN  IF ~req.valid
        THEN Answer(req, did, 400, "invalid request")
        ELSE IF Truthy(getCache(CacheKey(req.route)).value)
        THEN Answer(req, read, 200, getCache(CacheKey(req.route)).value)
        ELSE IF "execute" \in exports
        THEN [req EXCEPT !.pc = "execute", !.did = Append(read, "execute")]
        ELSE IF req.route = "POST /api/ai/analyze"
        THEN Answer(req, read, 200, "fallbackAnalysis")
        ELSE Answer(req, read, 500, "Failed to get AI response")

\* The handlers of GET /api/tasks and GET /api/tasks/stats up to their first
\* await
tasksHandler(req, did) ==
    LET read == Append(did, "getCache")
    IN  IF Truthy(getCache(CacheKey(req.route)).value)
        THEN Answer(req, read, 200, getCache(CacheKey(req.route)).value)
        ELSE [req EXCEPT !.pc = "tasks", !.did = Append(read, "supabase"),
                         !.read = tasks]

\* The cache once the handler of the request has read it
Read(req) ==
    IF req.route \in TaskRoutes \/ req.valid
    THEN getCache(CacheKey(req.route)).self
    ELSE cacheManager

\* A request arrives: app.use(generalLimiter), then authenticateToken up to
\* its await of the profiles query
arrive(route, token, valid) ==
    LET key == keyGenerator("generalLimiter", Client)
        totalHits == Increment("generalLimiter", key)
        req == [NoRequest EXCEPT !.route = route, !.token = token,
                                 !.valid = valid]
    IN  /\ request.pc \in {"idle", "done"}
        /\ Counted("generalLimiter") < budget["generalLimiter"]
        /\ token => Counted(RouteLimiter(route)) < budget[RouteLimiter(route)]
        /\ store' = [store EXCEPT !["generalLimiter"].hits =
                        MapSet(@, key, totalHits)]
        /\ request' =
             IF totalHits > FixedWindow["generalLimiter"].max
             THEN Answer(req, <<"generalLimiter">>, 429, "Too many requests")
             ELSE IF ~token
             THEN Answer(req, <<"generalLimiter", "authenticateToken">>,
                         401, "Access token required")
             ELSE [req EXCEPT !.pc = "profiles",
                              !.did = <<"generalLimiter", "authenticateToken",
                                        "supabase">>]
        /\ ret' = NoReturn
        /\ UNCHANGED <<now, instants, budget, guarded, limiter, window, unswept,
                    cache, dataStore>>

\* The profiles query of authenticateToken answers: 401, or next() into the
\* router: its limiter, then the handler up to its first await
profileAnswers(found) ==
    LET name == RouteLimiter(request.route)
        key == keyGenerator(name, Client)
        totalHits == Increment(name, key)
        did == Append(request.did, name)
    IN  /\ request.pc = "profiles"
        /\ IF ~found
           THEN /\ request' = Answer(request, request.did, 401, "User not found")
                /\ UNCHANGED <<store, cacheManager>>
           ELSE /\ store' = [store EXCEPT ![name].hits = MapSet(@, key, totalHits)]
                /\ request' =
                     IF totalHits > FixedWindow[name].max
                     THEN Answer(request, did, 429, "Too many requests")
                     ELSE IF request.route \in TaskRoutes
                     THEN tasksHandler(request, did)
                     ELSE aiHandler(request, did)
                /\ cacheManager' =
                     IF totalHits > FixedWindow[name].max THEN cacheManager
                     ELSE Read(request)
        /\ inserted' = Remembered(inserted, cacheManager')
        /\ ret' = NoReturn
        /\ UNCHANGED <<now, instants, budget, guarded, limiter, window, unswept,
                    dataStore>>

\* The query of GET /api/tasks or GET /api/tasks/stats answers: 500, or
\* the result is cached (the statistics with a ttl of 60000) and sent
tasksAnswer(ok) ==
    /\ request.pc = "tasks"
    /\ IF ok
       THEN LET body == IF request.route = "GET /api/tasks"
                        THEN tasksByQuadrant(request.read) ELSE "stats"
                ttl == IF request.route = "GET /api/tasks" THEN Null ELSE 60000
                r == setCache(CacheKey(request.route), body, ttl)
            IN  /\ cacheManager' = r.self
                /\ inserted' = IF r.value = "true"
                               THEN Stored("main", CacheKey(request.route), ttl)
                               ELSE inserted
                /\ request' = Answer(request, Append(request.did, "setCache"),
                                     200, body)
       ELSE /\ request' = Answer(request, request.did, 500,
                                 "Failed to fetch tasks")
            /\ UNCHANGED cache
    /\ ret' = NoReturn
    /\ UNCHANGED <<now, instants, budget, guarded, limiters, dataStore>>

\* A GET request to the route behind cacheMiddleware(): the cached answer
\* is sent if (cached); otherwise next(), the handler reads the data store
\* and calls res.json(data), which caches data with the ttl of 300 and
\* sends it
cacheMiddleware(data) ==
    LET req == [NoRequest EXCEPT !.route = CachedRoute, !.valid = TRUE]
        key == CacheKey(CachedRoute)
        cached == getCache(key)
        stored == CacheSet(cached.self, "main", key, data, 300, now)
    IN  /\ request.pc \in {"idle", "done"}
        /\ IF Truthy(cached.value)
           THEN /\ request' = Answer(req, <<"getCache">>, 200, cached.value)
                /\ cacheManager' = cached.self
                /\ inserted' = Remembered(inserted, cached.self)
           ELSE /\ request' = Answer(req, <<"getCache", "handler", "supabase",
                                            "setCache">>, 200, data)
                /\ cacheManager' = stored.self
                /\ inserted' = IF stored.value = "true"
                               THEN Stored("main", key, 300)
                               ELSE Remembered(inserted, stored.self)
        /\ ret' = NoReturn
        /\ UNCHANGED <<now, instants, budget, guarded, limiters, dataStore>>

\* A request that has passed authenticateToken and taskLimiter enters the
\* handler of GET /api/tasks or GET /api/tasks/stats, which runs up to its
\* first await: the cached answer, or the query sent to the data store,
\* which reads the rows as they are
getTasks(route) ==
    LET req == [NoRequest EXCEPT !.route = route, !.token = TRUE,
                                 !.valid = TRUE]
    IN  /\ request.pc \in {"idle", "done"}
        /\ request' = tasksHandler(req, << >>)
        /\ cacheManager' = Read(req)
        /\ inserted' = Remembered(inserted, cacheManager')
        /\ ret' = NoReturn
        /\ UNCHANGED <<now, instants, budget, guarded, limiters, dataStore>>

\* A mutation (create, update, delete, move) enters its handler, which runs
\* up to the await of its write: 400 for a body that is not valid, 404 for
\* a task that is not the client's (the queries before the write read one
\* row and a sequence number, and leave the cache and the rows alone)
mutate(route, valid) ==
    /\ mutation.pc \in {"idle", "done"}
    /\ tasks < MaxMutations
    /\ mutation' =
         IF valid THEN [route |-> route, pc |-> "writing", status |-> 0]
         ELSE [ route |-> route, pc |-> "done",
                status |-> IF route = "POST /api/tasks" THEN 400 ELSE 404 ]
    /\ ret' = NoReturn
    /\ UNCHANGED <<now, instants, budget, guarded, limiters, request, cache,
                    tasks, answered, retry>>

\* The data store applies the write of the mutation, or fails it: 500
commit(ok) ==
    /\ mutation.pc = "writing"
    /\ IF ok
       THEN /\ tasks' = tasks + 1
            /\ mutation' = [mutation EXCEPT !.pc = "written"]
       ELSE /\ mutation' = [mutation EXCEPT !.pc = "done", !.status = 500]
            /\ UNCHANGED tasks
    /\ ret' = NoReturn
    /\ UNCHANGED <<now, instants, budget, guarded, limiters, request, cache,
                    answered, retry>>

\* The handler of the mutation resumes after its write: deleteCache of the
\* task list of the client, then the answer (with a cache module that
\* exports no deleteCache the call throws and the catch answers 500)
mutationAnswers ==
    LET r == deleteCache("tasks_" \o Client.userId)
    IN  /\ mutation.pc = "written"
        /\ IF cacheManager.version = 1
           THEN /\ cacheManager' = r.self
                /\ inserted' = Remembered(inserted, r.self)
                /\ mutation' =
                     [mutation EXCEPT
                        !.pc = "done",
                        !.status = IF mutation.route = "POST /api/tasks"
                                   THEN 201 ELSE 200]
                /\ answered' = tasks
           ELSE /\ mutation' = [mutation EXCEPT !.pc = "done", !.status = 500]
                /\ UNCHANGED <<cache, answered>>
        /\ ret' = NoReturn
        /\ UNCHANGED <<now, instants, budget, guarded, limiters, request, tasks,
                        retry>>

----------------------------------------------------------------------------
(* retryOperation of the database module *)

\* No call under way.  history: attempts is the number of times the
\* operation was invoked, failedAt the times its attempts failed at,
\* invokedAt the times they were invoked at, waits the delays handed to
\* setTimeout
NoRetry ==
    [ pc |-> "idle", maxRetries |-> 0, i |-> 0, due |-> 0, attempts |-> 0,
      invokedAt |-> << >>, failedAt |-> << >>, waits |-> << >> ]

\* What attempt number n of the operation rejects with
AttemptError(n) ==
    IF n = 1 THEN "error of attempt 1"
    ELSE IF n = 2 THEN "error of attempt 2"
    ELSE IF n = 3 THEN "error of attempt 3"
    ELSE IF n = 4 THEN "error of attempt 4"
    ELSE "error of a later attempt"

\* A delay that would be the same after every attempt
DelayFlat(i) == 1000

\* The delay before the next attempt: 1000 * (i + 1)
Delay(i) == 1000 * (i + 1)

\* The loop test and the body up to its await, run at time t: operation()
\* is invoked, or the loop is over and the function returns undefined
Iterate(self, t) ==
    IF self.i < self.maxRetries
    THEN [self EXCEPT !.pc = "awaiting", !.attempts = @ + 1,
                      !.invokedAt = Append(@, t)]
    ELSE [self EXCEPT !.pc = "done"]

\* The call has returned
RetryReturned(self) ==
    IF self.pc = "done"
    THEN [Returned("retryOperation", "resolved") EXCEPT !.value = undefined]
    ELSE NoReturn

\* retryOperation(operation, maxRetries) up to its first await
retryOperation(maxRetries) ==
    /\ retry.pc = "idle"
    /\ retry' = Iterate([NoRetry EXCEPT !.maxRetries = maxRetries], now)
    /\ ret' = RetryReturned(retry')
    /\ UNCHANGED <<now, instants, budget, guarded, limiters, request, cache,
                    tasks, mutation, answered>>

\* The promise of operation() resolves: return its result
attemptResolves ==
    /\ retry.pc = "awaiting"
    /\ retry' = [retry EXCEPT !.pc = "done"]
    /\ ret' = [Returned("retryOperation", "resolved") EXCEPT
                 !.value = OperationResult]
    /\ UNCHANGED <<now, instants, budget, guarded, limiters, request, cache,
                    tasks, mutation, answered>>

\* The promise of operation() rejects: the catch throws the error of the
\* last attempt, or sets the timer and awaits it
attemptRejects ==
    LET error == AttemptError(retry.attempts)
        failed == [retry EXCEPT !.failedAt = Append(@, now)]
    IN  /\ retry.pc = "awaiting"
        /\ IF retry.i = retry.maxRetries - 1
           THEN /\ retry' = [failed EXCEPT !.pc = "done"]
                /\ ret' = [Returned("retryOperation", "rejected") EXCEPT
                             !.value = error, !.error = error]
           ELSE /\ retry' = [failed EXCEPT !.pc = "waiting",
                                           !.due = now + Delay(retry.i),
                                           !.waits = Append(@, Delay(retry.i))]
                /\ ret' = NoReturn
        /\ UNCHANGED <<now, instants, budget, guarded, limiters, request, cache,
                        tasks, mutation, answered>>

\* The timer of the wait fires, when it is due or late ms after that: i++,
\* and the loop goes on
retryTimerFires(late) ==
    /\ retry.pc = "waiting"
    /\ now <= retry.due + late
    /\ now' = retry.due + late
    /\ retry' = Iterate([retry EXCEPT !.i = @ + 1], now')
    /\ ret' = RetryReturned(retry')
    /\ UNCHANGED <<instants, budget, guarded, limiters, request, cache,
                    tasks, mutation, answered>>

\* Time passes while the call is under way: an attempt settles within
\* MaxAttemptMs, and a wait is not over before its timer is due
passes(t) ==
    /\ retry.pc = "awaiting"
          => t <= retry.invokedAt[Len(retry.invokedAt)] + MaxAttemptMs
    /\ retry.pc = "waiting" => t <= retry.due
    /\ retry.pc \in {"awaiting", "waiting"}
    /\ Tick(t)

----------------------------------------------------------------------------
(* Specifications *)

\* What Init leaves to the breakers it constructs
StartWith(breakers, times, slots, allowed, version) ==
    /\ now = 0
    /\ instants = times
    /\ budget = allowed
    /\ cb = breakers
    /\ calls = [c \in 1..slots |-> IdleCall]
    /\ ret = NoReturn
    /\ openedAt = [b \in DOMAIN breakers |-> Null]
    /\ consec = [b \in DOMAIN breakers |-> 0]
    /\ okRun = [b \in DOMAIN breakers |-> 0]
    /\ overrides = [b \in DOMAIN breakers |-> 0]
    /\ forcedAt = [b \in DOMAIN breakers |-> Null]
    /\ limiter = PointsBasedLimiter
    /\ window = NoEntries
    /\ unswept = PointsBasedLimiter
    /\ store = [name \in DOMAIN FixedWindow |->
                  [hits |-> NoEntries, resetTime |-> FixedWindow[name].windowMs]]
    /\ request = NoRequest
    /\ cacheManager = CacheManager(version)
    /\ inserted = NoEntries
    /\ tasks = 0
    /\ mutation = NoMutation
    /\ answered = 0
    /\ retry = NoRetry

\* The same with the cache module the routes import
Start(breakers, times, slots, allowed) ==
    StartWith(breakers, times, slots, allowed, 1)

\* One breaker, constructed with small options; the clock is looked at
\* every ms
SmallOptions ==
    { [failureThreshold |-> 2, resetTimeout |-> 2, timeout |-> 1, monitoringPeriod |-> 0] }

Init ==
    \E options \in SmallOptions :
        Start([b \in {"breaker"} |-> CircuitBreaker(options)], 0..MaxNow,
              MaxCalls, [b \in {"breaker"} |-> MaxRequests])

Spec == Init /\ [][Next]_vars

\* The three breakers the module constructs
geminiCircuitBreaker ==
    CircuitBreaker([failureThreshold |-> 5, resetTimeout |-> 60000,
                    timeout |-> 25000, monitoringPeriod |-> 60000])

supabaseCircuitBreaker ==
    CircuitBreaker([failureThreshold |-> 10, resetTimeout |-> 30000,
                    timeout |-> 15000, monitoringPeriod |-> 60000])

genericCircuitBreaker ==
    CircuitBreaker([failureThreshold |-> 8, resetTimeout |-> 45000,
                    timeout |-> 20000, monitoringPeriod |-> 60000])

Instances == {"gemini", "supabase", "generic"}

healthCheck ==
    [b \in Instances |-> IF b = "gemini" THEN geminiCircuitBreaker
                         ELSE IF b = "supabase" THEN supabaseCircuitBreaker
                         ELSE genericCircuitBreaker]

\* The module's breakers under a storm of calls against one dependency,
\* one call at a time, the operator free to override any of the three; the
\* clock is looked at every minute
InitInstances ==
    \E target \in Instances :
        Start(healthCheck, {m * 60000 : m \in 0..MaxMinutes}, MaxSerial,
              [b \in Instances |-> IF b = target THEN MaxStorm ELSE 0])

SpecInstances == InitInstances /\ [][Next]_vars

\* The breaker of the recovery scenario: failureThreshold 3, resetTimeout
\* 1000 ms, one call at a time; the clock is looked at as the breaker opens,
\* 500 ms later and 1100 ms later
InitScenario ==
    Start([b \in {"breaker"} |->
              CircuitBreaker([failureThreshold |-> 3, resetTimeout |-> 1000,
                              timeout |-> 500, monitoringPeriod |-> 0])],
          {0, 500, 1100}, MaxSerial, [b \in {"breaker"} |-> MaxScenario])

SpecScenario == InitScenario /\ [][Next]_vars

\* A breaker whose calls may outlast its stay in OPEN (timeout above
\* resetTimeout), two calls in flight at a time, the clock looked at every ms
InitProbe ==
    Start([b \in {"breaker"} |->
              CircuitBreaker([failureThreshold |-> 1, resetTimeout |-> 1,
                              timeout |-> 2, monitoringPeriod |-> 0])],
          0..MaxProbeNow, MaxCalls, [b \in {"breaker"} |-> MaxProbeCalls])

SpecProbe == InitProbe /\ [][Next]_vars

\* The breaker of the recovery scenario behind circuitBreakerMiddleware: a
\* request passes the middleware, then the route calls execute(), or a caller
\* calls execute() directly; the clock is looked at as the breaker opens,
\* 500 ms later and 2500 ms later
InitGuarded ==
    Start([b \in {"breaker"} |->
              CircuitBreaker([failureThreshold |-> 3, resetTimeout |-> 1000,
                              timeout |-> 500, monitoringPeriod |-> 0])],
          {0, 500, 2500}, MaxSerial, [b \in {"breaker"} |-> MaxGuarded])

NextGuarded ==
    \/ Next
    \/ \E b \in DOMAIN cb : circuitBreakerMiddleware(b)

SpecGuarded == InitGuarded /\ [][NextGuarded]_vars

\* A request to a route that is mounted behind circuitBreakerMiddleware(b)
\* and whose handler calls b.execute(): 503 from the middleware while the
\* state is OPEN, else next() and the head of execute()
guardedRequest(b, fb) ==
    IF getState(cb[b]).state = OPEN
    THEN circuitBreakerMiddleware(b)
    ELSE execute(b, fb)

\* The guarded route alone: every call of execute() comes from a request
\* that has passed the middleware, and the operator keeps away
NextRoute ==
    \/ \E b \in DOMAIN cb, fb \in BOOLEAN : guardedRequest(b, fb)
    \/ \E c \in Slots : operationResolves(c)
    \/ \E c \in Slots, error \in OperationErrors, fb \in BOOLEAN :
           operationRejects(c, error, fb)
    \/ \E c \in Slots, fb \in BOOLEAN : timeoutFires(c, fb)
    \/ \E c \in Slots, ok \in BOOLEAN : fallbackSettles(c, ok)
    \/ \E t \in instants : Tick(t)

\* Requests keep arriving, time passes, and what is awaited settles
FairRoute ==
    /\ WF_vars(\E b \in DOMAIN cb, fb \in BOOLEAN : guardedRequest(b, fb))
    /\ WF_vars(\E t \in instants : Tick(t))
    /\ WF_vars(\E c \in Slots : operationResolves(c))
    /\ WF_vars(\E c \in Slots, fb \in BOOLEAN : timeoutFires(c, fb))
    /\ WF_vars(\E c \in Slots, ok \in BOOLEAN : fallbackSettles(c, ok))

SpecRoute == InitGuarded /\ [][NextRoute]_vars /\ FairRoute

\* pointsLimiter alone; the clock is looked at as the first window starts,
\* as it ends and 1 ms later
InitLimiter ==
    Start(NoEntries, {0, PointsBasedLimiter.windowMs,
                      PointsBasedLimiter.windowMs + 1}, 0, NoEntries)

NextLimiter ==
    \/ \E req \in Requests : middleware(req)
    \/ cleanup
    \/ \E t \in instants : Tick(t)

SpecLimiter == InitLimiter /\ [][NextLimiter]_vars

\* The fixed-window limiters, one of them under more requests than it lets
\* through; the clock is looked at as the window starts, halfway and as it
\* ends
InitFixed ==
    \E target \in DOMAIN FixedWindow :
        Start(NoEntries,
              {0, FixedWindow[target].windowMs \div 2,
               FixedWindow[target].windowMs},
              0,
              [name \in DOMAIN FixedWindow |->
                  IF name = target THEN FixedWindow[name].max + MaxExcess
                  ELSE 0])

NextFixed ==
    \/ \E name \in DOMAIN FixedWindow, req \in Callers : rateLimit(name, req)
    \/ \E name \in DOMAIN FixedWindow : resetAll(name)
    \/ \E t \in instants : Tick(t)

SpecFixed == InitFixed /\ [][NextFixed]_vars

\* The server under more requests than one of its limiters lets through,
\* within one window of every limiter
InitRoutes ==
    \E target \in {"generalLimiter", "taskLimiter", "aiLimiter"} :
        Start(NoEntries, {0}, 0,
              [name \in DOMAIN FixedWindow |->
                  IF name \in {target, "generalLimiter"}
                  THEN FixedWindow[target].max + MaxExcess
                  ELSE 0])

NextRoutes ==
    \/ \E route \in Routes, token \in BOOLEAN, valid \in BOOLEAN :
           arrive(route, token, valid)
    \/ \E found \in BOOLEAN : profileAnswers(found)
    \/ \E ok \in BOOLEAN : tasksAnswer(ok)
    \/ \E data \in Payloads : cacheMiddleware(data)

SpecRoutes == InitRoutes /\ [][NextRoutes]_vars

\* The cache manager alone, working on one of its tiers.  Either the tier
\* is loaded up to maxKeys as the run starts, or the clock moves: it is
\* looked at as the run starts, when the ttl of the tier is over, and 1 ms
\* later.
InitCache ==
    \E version \in {1, 2}, target \in {"main", "session", "ai"},
       loaded \in BOOLEAN :
        LET tier == CacheManager(version).caches[target]
        IN  StartWith(NoEntries,
                      IF loaded THEN {0}
                      ELSE {0, tier.options.stdTTL * 1000,
                            tier.options.stdTTL * 1000 + 1},
                      0,
                      [c \in {target} |->
                          IF loaded THEN tier.options.maxKeys ELSE MaxOther],
                      version)

NextCache ==
    \/ \E cacheType \in CacheTypes, key \in Keys \cup {Other} :
           get(cacheType, key)
    \/ \E cacheType \in CacheTypes, key \in Keys \cup {Other},
          value \in Values, ttl \in TTLs : set(cacheType, key, value, ttl)
    \/ \E cacheType \in CacheTypes, key \in Keys \cup {Other} :
           delete(cacheType, key)
    \/ \E cacheType \in CacheTypes, key \in Keys \cup {Other} :
           has(cacheType, key)
    \/ \E cacheType \in CacheTypes : clear(cacheType)
    \/ prune
    \/ \E cacheType \in CacheTypes : checkData(cacheType)
    \/ \E t \in instants : Tick(t)

SpecCache == InitCache /\ [][NextCache]_vars

\* The task router past its limiter: reads of the task list and of the
\* statistics, and mutations, one request of each kind under way at a time;
\* the clock is looked at as the run starts, just after 1 minute and just
\* after 5 minutes
InitTasks ==
    Start(NoEntries, {0, 60 * 1000 + 1, 300 * 1000 + 1}, 0, NoEntries)

NextTasks ==
    \/ \E route \in TaskRoutes : getTasks(route)
    \/ \E ok \in BOOLEAN : tasksAnswer(ok)
    \/ \E route \in MutationRoutes, valid \in BOOLEAN : mutate(route, valid)
    \/ \E ok \in BOOLEAN : commit(ok)
    \/ mutationAnswers
    \/ \E t \in instants : Tick(t)

SpecTasks == InitTasks /\ [][NextTasks]_vars

\* One call of retryOperation, with maxRetries from 0 to MaxRetries
InitRetry ==
    Start(NoEntries, {k * Granularity : k \in 0..(MaxRetryNow \div Granularity)},
          0, NoEntries)

NextRetry ==
    \/ \E maxRetries \in 0..MaxRetries : retryOperation(maxRetries)
    \/ attemptResolves
    \/ attemptRejects
    \/ \E late \in {0, Granularity} : retryTimerFires(late)
    \/ \E t \in instants : passes(t)

\* Every attempt settles, the event loop runs the timers that are due, and
\* time passes
FairRetry ==
    /\ WF_vars(attemptResolves \/ attemptRejects)
    /\ WF_vars(\E late \in {0, Granularity} : retryTimerFires(late))
    /\ WF_vars(\E t \in instants : passes(t))

SpecRetry == InitRetry /\ [][NextRetry]_vars /\ FairRetry

----------------------------------------------------------------------------
(* Reading a step *)

\* The step is the head of an execute() call on b
IsExecute(b) == cb'[b].stats.totalRequests = cb[b].stats.totalRequests + 1

\* The step throws 'Circuit breaker is OPEN' at the caller, the operation
\* not invoked
Rejected(b) ==
    /\ ret'.b = b
    /\ ret'.kind = "rejected"
    /\ ret'.value = CircuitOpenError
    /\ ~ret'.invoked
    /\ calls' = calls

\* The step invokes the operation of a new call on b
Invoked(b) ==
    \E c \in Slots : /\ calls'[c].pc = "racing"
                     /\ calls'[c].b = b
                     /\ calls'[c] # calls[c]

\* The step records a failed (a successful) guarded call on b
FailureRecorded(b) == consec'[b] = consec[b] + 1
SuccessRecorded(b) == okRun'[b] = okRun[b] + 1

\* The step is the timer of call c firing (the promise of its operation
\* settling)
TimerFired(c) == calls[c].timerPending /\ ~calls'[c].timerPending
OperationSettled(c) == calls[c].opPending /\ ~calls'[c].opPending

\* Time since the breaker entered OPEN
SinceOpened(b) == now - openedAt[b]

----------------------------------------------------------------------------
(* The claims *)

\* C1: for a breaker in state CLOSED, once failureThreshold guarded calls in
\* a row have failed (no success in between) the breaker is OPEN, and an
\* execute() call made while it is OPEN and before resetTimeout has elapsed
\* since it opened is thrown out with 'Circuit breaker is OPEN', the
\* operation not invoked.
C1_ThresholdOpensAndRejects ==
    [][\A b \in DOMAIN cb :
         /\ ( /\ cb[b].state = CLOSED
              /\ FailureRecorded(b)
              /\ consec'[b] >= cb[b].failureThreshold )
            => cb'[b].state = OPEN
         /\ ( /\ IsExecute(b)
              /\ cb[b].state = OPEN
              /\ SinceOpened(b) < cb[b].resetTimeout )
            => Rejected(b)]_vars

\* C2: a single failed guarded call while the breaker is HALF_OPEN puts it
\* back in OPEN at once, whatever failureCount and successCount are.
C2_HalfOpenFailureReopens ==
    [][\A b \in DOMAIN cb :
         (cb[b].state = HALF_OPEN /\ FailureRecorded(b))
         => cb'[b].state = OPEN]_vars

\* C3: while the breaker is OPEN, an execute() call is thrown out with
\* 'Circuit breaker is OPEN', the operation not invoked, unless more than
\* resetTimeout has elapsed since the breaker entered OPEN; a call made
\* after more than that moves the breaker to HALF_OPEN and invokes the
\* operation.
C3_OpenUntilResetTimeout ==
    [][\A b \in DOMAIN cb :
         (IsExecute(b) /\ cb[b].state = OPEN)
         => /\ SinceOpened(b) <= cb[b].resetTimeout => Rejected(b)
            /\ SinceOpened(b) > cb[b].resetTimeout
               => (Invoked(b) /\ cb'[b].state = HALF_OPEN)]_vars

\* C4 (under SpecScenario: failureThreshold 3, resetTimeout 1000 ms): three
\* failing calls in a row open the breaker; a call 500 ms after it opened is
\* thrown out with 'Circuit breaker is OPEN'; a call 1100 ms after it opened
\* is attempted in HALF_OPEN (the operator not having touched the breaker);
\* three successes in a row after the breaker became HALF_OPEN close it with
\* failureCount = 0.
C4_RecoveryScenario ==
    [][\A b \in DOMAIN cb :
         /\ (cb[b].state = CLOSED /\ FailureRecorded(b) /\ consec'[b] = 3)
            => cb'[b].state = OPEN
         /\ ( /\ IsExecute(b) /\ cb[b].state = OPEN /\ overrides[b] = 0
              /\ SinceOpened(b) = 500 )
            => Rejected(b)
         /\ ( /\ IsExecute(b) /\ cb[b].state = OPEN /\ overrides[b] = 0
              /\ SinceOpened(b) = 1100 )
            => (Invoked(b) /\ cb'[b].state = HALF_OPEN)
         /\ (cb[b].state = HALF_OPEN /\ SuccessRecorded(b) /\ okRun'[b] = 3)
            => (cb'[b].state = CLOSED /\ cb'[b].failureCount = 0)]_vars

\* C5: when the guarded operation fails or times out and a fallback is
\* supplied, the fallback runs after the failure has been recorded, and
\* execute() returns the fallback's result if the fallback succeeds and
\* throws the error of the operation if the fallback fails too.
C5_FallbackAfterFailure ==
    /\ \A c \in Slots : calls[c].pc = "fallback" => calls[c].handled = 1
    /\ (ret.error # NoError /\ ret.fb)
       => /\ ret.fallbackRan
          /\ ret.kind = "resolved" => ret.value = FallbackResult
          /\ ret.kind = "rejected" => ret.value = ret.error

\* C6: when execute() throws a call out because the breaker is OPEN and the
\* caller supplied a fallback, the fallback is invoked.
C6_FallbackOnOpenRejection ==
    (ret.kind = "rejected" /\ ~ret.invoked /\ ret.fb) => ret.fallbackRan

\* C7: while the breaker is CLOSED each failed guarded call adds one to
\* failureCount and each successful one sets it to zero, failureCount is the
\* number of calls failed in a row, and a failed call opens the breaker
\* exactly when failureCount reaches failureThreshold.
C7_FailureCountWhileClosed ==
    /\ [](\A b \in DOMAIN cb :
            cb[b].state = CLOSED => cb[b].failureCount = consec[b])
    /\ [][\A b \in DOMAIN cb :
            cb[b].state = CLOSED =>
              /\ FailureRecorded(b)
                 => /\ cb'[b].failureCount = cb[b].failureCount + 1
                    /\ cb'[b].state = OPEN
                       <=> cb'[b].failureCount >= cb[b].failureThreshold
              /\ SuccessRecorded(b) => cb'[b].failureCount = 0]_vars

\* C8: a call still awaiting its operation when the timer fires is recorded
\* as a failure (failureCount and stats.totalFailures one up, the breaker
\* OPEN if failureCount has reached failureThreshold), and
\* stats.totalTimeouts goes up in a step exactly if the step is such a
\* timer firing.
C8_TimeoutsCounted ==
    [][\A b \in DOMAIN cb :
         LET timedOut == \E c \in Slots : /\ calls[c].b = b
                                          /\ AwaitsRace(calls[c])
                                          /\ TimerFired(c)
         IN  /\ timedOut
                => /\ cb'[b].failureCount = cb[b].failureCount + 1
                   /\ cb'[b].stats.totalFailures = cb[b].stats.totalFailures + 1
                   /\ cb'[b].failureCount >= cb[b].failureThreshold
                      => cb'[b].state = OPEN
             /\ cb'[b].stats.totalTimeouts # cb[b].stats.totalTimeouts
                <=> timedOut]_vars

\* C9: a call that is let through runs exactly one of onSuccess and
\* onFailure: none while it awaits the race, one from then on; and when the
\* promise that lost the race settles later (the operation after the timer,
\* or the timer after the operation), nothing of any breaker changes.
C9_OneOutcomePerCall ==
    /\ [](\A c \in Slots :
            /\ calls[c].pc = "racing" => calls[c].handled = 0
            /\ calls[c].pc \in {"fallback", "done"} => calls[c].handled = 1)
    /\ [][\A c \in Slots :
            (~AwaitsRace(calls[c]) /\ (TimerFired(c) \/ OperationSettled(c)))
            => cb' = cb]_vars

\* C9 witness: the promise that lost a race has just settled, after the
\* breaker had recorded the outcome of that call
C9_Witness ==
    /\ ret.kind = "discarded"
    /\ cb[ret.b].stats.totalTimeouts + cb[ret.b].stats.totalSuccesses > 0

\* The breaker a step works on, if it changes any
WorksOn(b) ==
    \/ overrides'[b] # overrides[b]
    \/ ret'.b = b
    \/ \E c \in Slots : calls'[c] # calls[c] /\ calls'[c].b = b

\* C10 (under SpecInstances): a call, failure, timeout or override on one
\* of the three breakers leaves the other two as they were, fields and stats.
C10_InstancesIndependent ==
    [][\A b \in DOMAIN cb : cb'[b] # cb[b] => WorksOn(b)]_vars

\* C10 witness: the storm has opened the gemini breaker, the other two have
\* seen nothing of it
C10_Witness ==
    /\ DOMAIN cb = Instances
    /\ cb["gemini"].state = OPEN
    /\ cb["gemini"].stats.circuitOpens = 1
    /\ cb["gemini"].stats.totalFailures = 5
    /\ cb["supabase"] = supabaseCircuitBreaker
    /\ cb["generic"] = genericCircuitBreaker

\* C11: the operator's calls take effect at once.  When forceOpen() returns
\* the state is OPEN, and every execute() made less than resetTimeout after
\* it (the operator not having called again) is thrown out, the operation
\* not invoked; when forceClose() returns the state is CLOSED with
\* failureCount = 0 and successCount = 0, and an execute() that comes next
\* invokes the operation; when reset() returns the state is CLOSED with
\* failureCount = 0, successCount = 0 and lastFailureTime = null.  None of
\* the three changes stats.
C11_OverridesImmediate ==
    /\ [](\A b \in DOMAIN cb : ret.b = b =>
            /\ ret.kind = "forceOpen" => cb[b].state = OPEN
            /\ ret.kind = "forceClose"
               => /\ cb[b].state = CLOSED
                  /\ cb[b].failureCount = 0
                  /\ cb[b].successCount = 0
            /\ ret.kind = "reset"
               => /\ cb[b].state = CLOSED
                  /\ cb[b].failureCount = 0
                  /\ cb[b].successCount = 0
                  /\ cb[b].lastFailureTime = Null)
    /\ [][\A b \in DOMAIN cb :
            /\ overrides'[b] # overrides[b] => cb'[b].stats = cb[b].stats
            /\ ( /\ IsExecute(b)
                 /\ forcedAt[b] # Null
                 /\ now - forcedAt[b] < cb[b].resetTimeout )
               => Rejected(b)
            /\ (IsExecute(b) /\ ret.b = b /\ ret.kind = "forceClose")
               => Invoked(b)]_vars

\* C11 witness: a call has just been thrown out by a breaker that no call
\* has failed on: forceOpen() opened it, less than resetTimeout ago
C11_Witness ==
    /\ ret.kind = "rejected"
    /\ ~ret.invoked
    /\ forcedAt[ret.b] # Null
    /\ now > forcedAt[ret.b]
    /\ cb[ret.b].stats.totalFailures = 0

\* Seconds left of the reset timeout of breaker b, counted from its last
\* failure
RemainingSeconds(b) ==
    Ceil(cb[b].resetTimeout - (now - ToNumber(cb[b].lastFailureTime)), 1000)

\* C12 (under SpecGuarded): every circuit-open rejection handed to a caller,
\* the 503 of circuitBreakerMiddleware and the rejection thrown by execute()
\* alike, carries a retry-after estimate equal to the seconds left of the
\* reset timeout, and the estimate is never negative.
C12_RetryAfterRemaining ==
    (ret.kind = "503" \/ (ret.kind = "rejected" /\ ~ret.invoked))
    => /\ ret.retryAfter = {RemainingSeconds(ret.b)}
       /\ \A seconds \in ret.retryAfter : seconds >= 0

\* The step is a request of key for an operation reaching pointsLimiter
IsRequest(key, operation) ==
    /\ ret'.kind \in {"next", "429"}
    /\ ret'.b = key
    /\ ret'.value = operation

\* The step lets the request through (turns it away)
LetThrough == ret'.kind = "next"
TurnedAway == ret'.kind = "429"

\* What pointsLimiter holds of key at time now once an expired window is
\* replaced: points and resetTime
Current(key) ==
    IF key \in DOMAIN limiter.points /\ now <= limiter.points[key].resetTime
    THEN limiter.points[key]
    ELSE [points |-> 0, resetTime |-> now + limiter.windowMs]

C15_WindowReset ==
    [][\A key \in DOMAIN limiter.points, operation \in Operations :
         IsRequest(key, operation) =>
           LET held == limiter.points[key]
           IN  /\ now > held.resetTime
                  => /\ LetThrough
                     /\ limiter'.points[key] =
                          [ points |-> getCost(operation),
                            resetTime |-> now + limiter.windowMs ]
               /\ now <= held.resetTime
                  => /\ limiter'.points[key].resetTime = held.resetTime
                     /\ LetThrough <=> (held.points + getCost(operation)
                                          <= limiter.maxPoints)]_vars

\* C15 witness: a key that was turned away in its last window has just been
\* let through, 1 ms after that window ended, its points starting anew
C15_Witness ==
    /\ ret.kind = "next"
    /\ window[ret.b].exhausted
    /\ now = limiter.windowMs + 1
    /\ limiter.points[ret.b] =
         [points |-> getCost(ret.value), resetTime |-> now + limiter.windowMs]

\* C17 (under SpecLimiter): every 429 of the point-budget middleware hands
\* the caller a retry-after, the seconds until the window of the key ends.
\* (The reason naming the budget would come with it.)
C17_RejectionRetryAfter ==
    ret.kind = "429"
    => ret.retryAfter = {Ceil(window[ret.b].end - now, 1000)}

C16_FixedWindowRetryAfter ==
    (ret.kind = "429" /\ ret.b \in DOMAIN FixedWindow)
    => ret.retryAfter = {Ceil(store[ret.b].resetTime - now, 1000)}

\* What a request has caused: a cache read, a cache write, a call out of
\* the process
Caused(req) ==
    {req.did[i] : i \in DOMAIN req.did}
      \cap {"getCache", "setCache", "supabase", "gemini", "execute"}

\* Event a comes before every event b in what the request did
Before(req, a, b) ==
    \A i, j \in DOMAIN req.did :
        (req.did[i] = a /\ req.did[j] = b) => i < j

\* C19 (under SpecRoutes): for every request to /api/tasks and /api/ai the
\* general limiter and then the limiter of the route decide before the
\* handler reads the cache: a request answered 429 has caused no cache read,
\* no cache write and no call out of the process.
C19_AdmissionFirst ==
    /\ Before(request, "generalLimiter", RouteLimiter(request.route))
    /\ Before(request, RouteLimiter(request.route), "getCache")
    /\ Before(request, RouteLimiter(request.route), "setCache")
    /\ request.status = 429 => Caused(request) = {}

\* C20 (under SpecRoutes): an AI handler that has missed the cache has made
\* the provider call through the breaker's execute; and once it has
\* answered with what the provider returned, that is in the cache under the
\* key of the request.
C20_AiThroughBreaker ==
    ( /\ request.route \in AiRoutes
      /\ request.pc = "done"
      /\ "getCache" \in Caused(request)
      /\ ~Held(cacheManager.caches.main, CacheKey(request.route)) )
    => "execute" \in Caused(request)

\* C27 (under SpecScenario): the breaker moves from HALF_OPEN to CLOSED on
\* the success of a guarded call only when that success is at least the
\* third in a row since the breaker became HALF_OPEN and since the last
\* failed call: successes recorded before a failed probe do not count.
C27_ThreeProbesInARow ==
    [][\A b \in DOMAIN cb :
         (cb[b].state = HALF_OPEN /\ cb'[b].state = CLOSED /\ SuccessRecorded(b))
         => okRun'[b] >= 3]_vars

\* The time call c was admitted at, read off its running timer
AdmittedAt(c) == now - (cb[calls[c].b].timeout - calls[c].timer)

\* Call c was let through before the breaker last became HALF_OPEN: no
\* later than resetTimeout after the breaker last entered OPEN
NotAProbe(c) ==
    /\ calls[c].timerPending
    /\ openedAt[calls[c].b] # Null
    /\ AdmittedAt(c) < openedAt[calls[c].b] + cb[calls[c].b].resetTimeout

\* C28 (under SpecProbe): the success of a call that was let through before
\* the breaker became HALF_OPEN, and that settles while the breaker is
\* HALF_OPEN, leaves successCount and the state as they are.
C28_OnlyProbesCount ==
    [][\A c \in Slots :
         ( /\ calls[c].pc = "racing"
           /\ NotAProbe(c)
           /\ OperationSettled(c)
           /\ cb[calls[c].b].state = HALF_OPEN
           /\ SuccessRecorded(calls[c].b) )
         => /\ cb'[calls[c].b].successCount = cb[calls[c].b].successCount
            /\ cb'[calls[c].b].state = HALF_OPEN]_vars

\* Requests can still come in on b, and b is OPEN with resetTimeout over
OpenAndDue(b) ==
    /\ cb[b].state = OPEN
    /\ now - ToNumber(cb[b].lastFailureTime) >= cb[b].resetTimeout
    /\ cb[b].stats.totalRequests < budget[b]

\* C29 (under SpecRoute): a breaker that is OPEN with resetTimeout elapsed,
\* and whose route keeps receiving requests through circuitBreakerMiddleware,
\* eventually leaves OPEN.
C29_LeavesOpen ==
    \A b \in {"breaker"} : OpenAndDue(b) ~> (cb[b].state # OPEN)

\* C30: whatever value the guarded operation fails with, the failure is
\* recorded in full (failureCount and stats.totalFailures one up,
\* lastFailureTime the time of the failure, the breaker OPEN once
\* failureCount has reached failureThreshold), and what the call then throws
\* is the value the operation failed with, unless a fallback takes over.
C30_EveryFailureRecorded ==
    [][\A b \in DOMAIN cb :
         FailureRecorded(b)
         => /\ cb'[b].failureCount = cb[b].failureCount + 1
            /\ cb'[b].stats.totalFailures = cb[b].stats.totalFailures + 1
            /\ cb'[b].lastFailureTime = now
            /\ cb'[b].failureCount >= cb[b].failureThreshold
               => cb'[b].state = OPEN
            /\ (ret'.b = b /\ ret'.kind = "rejected")
               => ret'.value = ret'.error
            /\ (ret'.b = b /\ ret'.fb) => ret'.kind # "rejected"]_vars

\* The step is a call of a method of the cache manager on a tier it has
CacheCall(method, cacheType, key) ==
    /\ ret'.kind = method
    /\ ret'.b = cacheType
    /\ ret'.key = key
    /\ cacheType \in DOMAIN cacheManager.caches

\* The time to live, in ms, of what set() stored: the ttl given in seconds,
\* that of the tier when none was given
TimeToLive(cacheType, stored) ==
    1000 * (IF stored.ttl = Null
            THEN cacheManager.caches[cacheType].options.stdTTL
            ELSE stored.ttl)

\* What set() stored under the key is held and past its time; a ttl of 0
\* is no limit
Overdue(cacheType, key) ==
    /\ <<cacheType, key>> \in DOMAIN inserted
    /\ inserted[<<cacheType, key>>].ttl # 0
    /\ now > inserted[<<cacheType, key>>].at
               + TimeToLive(cacheType, inserted[<<cacheType, key>>])

\* C22 (under SpecCache): a get and a has on a key whose entry is past its
\* insertion time + ttl report a miss, swept or not; and what a get returns
\* for a held key is what was stored, in its time.
C22_ExpiredIsAbsent ==
    [][\A cacheType \in DOMAIN cacheManager.caches, key \in Keys :
         /\ (CacheCall("get", cacheType, key) /\ Overdue(cacheType, key))
            => ret'.value = undefined
         /\ (CacheCall("has", cacheType, key) /\ Overdue(cacheType, key))
            => ret'.value = "false"
         /\ (CacheCall("get", cacheType, key) /\ ret'.value \in Values)
            => ~Overdue(cacheType, key)]_vars

\* A get has found the key held, its time over, and reported a miss
C22_Witness ==
    /\ ret.kind = "get"
    /\ ret.b \in DOMAIN cacheManager.caches
    /\ ret.key \in Keys
    /\ ret.held
    /\ ret.value = undefined
    /\ now > 0

\* C23 (under SpecCache): no tier ever holds more entries than its maxKeys.
C23_CacheBound ==
    \A cacheType \in DOMAIN cacheManager.caches :
        KeyCount(cacheManager.caches[cacheType])
            <= cacheManager.caches[cacheType].options.maxKeys

\* A set has been tried on a tier that holds maxKeys entries
C23_Witness ==
    /\ ret.kind = "set"
    /\ ret.b \in DOMAIN cacheManager.caches
    /\ KeyCount(cacheManager.caches[ret.b])
          = cacheManager.caches[ret.b].options.maxKeys
    /\ ret.value # "true"

\* C24 (under SpecCache): a set on a tier the manager has returns success,
\* the tier at capacity or not, and leaves the key held and the tier within
\* its maxKeys.
C24_SetEvictsWhenFull ==
    [][\A cacheType \in DOMAIN cacheManager.caches, key \in Keys \cup {Other} :
         CacheCall("set", cacheType, key)
         => /\ ret'.value = "true"
            /\ ret'.error = NoError
            /\ Held(cacheManager'.caches[cacheType], key)
            /\ KeyCount(cacheManager'.caches[cacheType])
                  <= cacheManager.caches[cacheType].options.maxKeys]_vars

\* C25 (under SpecCache): no method of the cache manager throws, whatever the
\* tier holds; on an identifier that is no tier, get returns a miss, set,
\* delete and clear return false, has returns false, and no tier changes.
C25_NeverThrows ==
    [][ret'.kind \in {"get", "set", "delete", "has", "clear"}
       => /\ ret'.error = NoError
          /\ ret'.b = UnknownTier
             => /\ cacheManager' = cacheManager
                /\ ret'.kind = "get" => ~Truthy(ret'.value)
                /\ ret'.kind # "get" => ret'.value = "false"]_vars

\* C26 (under SpecCache): delete on a tier the manager has returns a success
\* value whether the key was held or not; it leaves the key not held, and
\* the tier as it was when the key was not held.
C26_DeleteIdempotent ==
    [][\A cacheType \in DOMAIN cacheManager.caches, key \in Keys :
         CacheCall("delete", cacheType, key)
         => /\ Truthy(ret'.value)
            /\ ~Held(cacheManager'.caches[cacheType], key)
            /\ ~ret'.held => cacheManager' = cacheManager]_vars

\* The step is a handler (or cacheMiddleware) reading the cache for the
\* request
ReadsCache ==
    /\ request.pc # "tasks"
    /\ request' # request
    /\ \E i \in DOMAIN request'.did : request'.did[i] = "getCache"

\* The main tier holds an entry for the key, its time not over
Fresh(key) ==
    /\ Held(cacheManager.caches.main, key)
    /\ check(cacheManager.caches.main, key, now).value

\* C21 (under SpecRoutes): a handler, or cacheMiddleware, that reads the
\* cache while a fresh entry is held under the key of the request answers
\* at once with the value held, and nothing follows the cache read: no call
\* of the data store, of the AI provider or of a breaker, no handler.
C21_HitShortCircuits ==
    [][(ReadsCache /\ Fresh(CacheKey(request'.route)))
       => /\ request'.pc = "done"
          /\ request'.status = 200
          /\ request'.body = Entry(cacheManager.caches.main,
                                   CacheKey(request'.route)).v
          /\ request'.did[Len(request'.did)] = "getCache"]_vars

\* C31: stats.circuitOpens counts the entries of the breaker into OPEN from
\* another state, stats.circuitCloses its moves from HALF_OPEN to CLOSED:
\* step by step, each of them goes up by one exactly when such a move is
\* made, whoever makes it, and stays otherwise (a failure recorded while the
\* breaker is OPEN already is no new opening).
C31_TransitionsCounted ==
    [][\A b \in DOMAIN cb :
         /\ cb'[b].stats.circuitOpens - cb[b].stats.circuitOpens
              = IF cb[b].state # OPEN /\ cb'[b].state = OPEN THEN 1 ELSE 0
         /\ cb'[b].stats.circuitCloses - cb[b].stats.circuitCloses
              = IF cb[b].state = HALF_OPEN /\ cb'[b].state = CLOSED
                THEN 1 ELSE 0]_vars

\* The cumulative counters of a breaker
Counters == {"totalRequests", "totalFailures", "totalSuccesses",
             "totalTimeouts", "circuitOpens", "circuitCloses"}

\* C32: in every state of a breaker totalSuccesses + totalFailures is at most
\* totalRequests and totalTimeouts at most totalFailures; and no step lowers
\* a cumulative counter, reset(), forceOpen() and forceClose() included.
C32_CountersConsistent ==
    /\ [](\A b \in DOMAIN cb :
            /\ cb[b].stats.totalSuccesses + cb[b].stats.totalFailures
                 <= cb[b].stats.totalRequests
            /\ cb[b].stats.totalTimeouts <= cb[b].stats.totalFailures)
    /\ [][\A b \in DOMAIN cb, counter \in Counters :
            cb'[b].stats[counter] >= cb[b].stats[counter]]_vars

\* C32 witness: the operator has just called on a breaker that has counted
\* a success, a timeout and a call thrown out
C32_Witness ==
    /\ ret.kind \in {"reset", "forceOpen", "forceClose"}
    /\ cb[ret.b].stats.totalSuccesses > 0
    /\ cb[ret.b].stats.totalTimeouts > 0
    /\ cb[ret.b].stats.totalRequests
         > cb[ret.b].stats.totalSuccesses + cb[ret.b].stats.totalFailures

\* C33: an execute() call thrown out because the breaker is OPEN adds one to
\* stats.totalRequests and to requestCount and changes nothing else of the
\* breaker: state, failureCount, successCount, lastFailureTime and the other
\* counters stay, and so does the time the breaker entered OPEN.
C33_RejectionFrame ==
    [][\A b \in DOMAIN cb :
         Rejected(b)
         => /\ cb'[b] = [cb[b] EXCEPT !.stats.totalRequests = @ + 1,
                                      !.requestCount = @ + 1]
            /\ cb'[b].state = OPEN
            /\ cb'[b].lastFailureTime = cb[b].lastFailureTime
            /\ openedAt' = openedAt]_vars

\* C33 witness: a call has just been thrown out by a breaker that failures
\* opened some time ago, after an earlier call was thrown out as well
C33_Witness ==
    /\ ret.kind = "rejected"
    /\ ~ret.invoked
    /\ cb[ret.b].state = OPEN
    /\ cb[ret.b].stats.circuitOpens > 0
    /\ now > ToNumber(cb[ret.b].lastFailureTime)
    /\ cb[ret.b].stats.totalRequests
         >= cb[ret.b].stats.totalSuccesses + cb[ret.b].stats.totalFailures + 2

\* Call c is in flight, past the state check, on a breaker that is OPEN: it
\* was let through before the breaker opened
InFlightWhileOpen(c) ==
    /\ calls[c].pc = "racing"
    /\ cb[calls[c].b].state = OPEN

\* C34: a call in flight on a breaker that has become OPEN, by the threshold
\* or by forceOpen(), still gets its own outcome: the result of its
\* operation when that resolves, the error of its operation when it is
\* thrown at the caller; its success leaves the breaker OPEN; and the
\* breaker leaves OPEN only at the head of an execute() call that finds
\* resetTimeout elapsed (or by the operator's reset() and forceClose()).
C34_InFlightWhenOpened ==
    [][/\ \A c \in Slots :
            (InFlightWhileOpen(c) /\ calls'[c].pc # "racing")
            => /\ SuccessRecorded(calls[c].b)
                  => /\ ret'.kind = "resolved"
                     /\ ret'.value = OperationResult
                     /\ cb'[calls[c].b].state = OPEN
               /\ (FailureRecorded(calls[c].b) /\ ret'.kind = "rejected")
                  => ret'.value = ret'.error
       /\ \A b \in DOMAIN cb :
            (cb[b].state = OPEN /\ cb'[b].state # OPEN)
            => \/ /\ IsExecute(b)
                  /\ Invoked(b)
                  /\ now - ToNumber(cb[b].lastFailureTime) >= cb[b].resetTimeout
               \/ overrides'[b] # overrides[b]]_vars

\* The keys cleanup() has deleted and no request has brought back
Swept == DOMAIN unswept.points \ DOMAIN limiter.points

\* C35 (under SpecLimiter): cleanup() is invisible to admission.  Whatever
\* requests and cleanups have gone before, every request that can come now
\* gets from pointsLimiter the answer it would get had cleanup() never run;
\* for cleanup() has deleted only keys whose window is over (now >
\* resetTime), and what is held of the keys it left is the same.
C35_CleanupInvisible ==
    /\ \A req \in Requests :
          canExecute(limiter, KeyOf(req), req.operation, now).result
            = canExecute(unswept, KeyOf(req), req.operation, now).result
    /\ DOMAIN limiter.points \subseteq DOMAIN unswept.points
    /\ \A key \in DOMAIN limiter.points :
          limiter.points[key] = unswept.points[key]
    /\ \A key \in Swept : now > unswept.points[key].resetTime

\* C35 witness: after a cleanup that deleted both keys, a key that had been
\* turned away in its last window has been let through, the other key
\* still deleted
C35_Witness ==
    /\ ret.kind = "next"
    /\ window[ret.b].exhausted
    /\ Swept # {}
    /\ limiter.points[ret.b] = unswept.points[ret.b]

\* The step answers a GET of the route from the cache
AnsweredFromCache(route) ==
    /\ request' # request
    /\ request'.route = route
    /\ request'.pc = "done"
    /\ request'.status = 200
    /\ request'.did[Len(request'.did)] = "getCache"

\* The mutations the data store had applied when it read the list
VersionOf(list) ==
    CHOOSE version \in 0..MaxMutations : tasksByQuadrant(version) = list

Age(key) == now - inserted[<<"main", key>>].at

\* C37 (under SpecTasks): a cached route result is no longer served once the
\* duration its route states has passed since it was stored: the statistics
\* of GET /api/tasks/stats answered from the cache were stored 1 minute ago
\* at most.  (The AI routes state 5, 3 and 2 minutes.)
C37_StatedDuration ==
    [][AnsweredFromCache("GET /api/tasks/stats")
       => Age(CacheKey("GET /api/tasks/stats")) <= 60 * 1000]_vars

\* The calls the claim is about: at least one attempt is asked for
Retrying == retry.pc # "idle" /\ retry.maxRetries >= 1

====
